---- MODULE Spec2Model ----
(***************************************************************************)
(* A model of okamt/mcserver: the NBT tape parser (nbt/src/parse.rs) with  *)
(* the navigation built on it (nbt/src/lib.rs, nbt/src/value.rs), and the  *)
(* per-connection packet pipeline (server/src/connection.rs,               *)
(* server/src/packet_handler.rs, packet/src, protocol/src/buf.rs).         *)
(*                                                                         *)
(* Bytes are naturals 0..255.  Tape positions are zero-based as in the     *)
(* source; TLA+ sequences are one-based, so tape entry p is tape[p + 1].   *)
(***************************************************************************)
EXTENDS Integers, Sequences, FiniteSets, TLC

VARIABLES
  \* ---- NBT: Tape::parse and the accessors over its result
  source,          \* the input byte slice handed to Tape::parse
  is_network_nbt,  \* the framing flag handed to Tape::parse
  debug_build,     \* whether debug_assert! is compiled in (cfg(debug_assertions))
  pos,             \* bytes of `source` consumed so far (full_size - remaining)
  tape,            \* Vec<TapeItem> under construction
  stack,           \* Vec<StackItem>, the compound/list scope stack
  result,          \* "running", "Ok", an NbtParseError kind, or "panic"
  looked,          \* the last named lookup made on the parsed root
  iter,            \* an NbtIterator over a container of the tape: [kind, container,
                   \* tape_pos, finished, last, late, status]
  access,          \* one call of an accessor of value.rs on the tape: [op, tape_pos,
                   \* index, status, value]
  origin,          \* history: the value whose serialization `source` is, if it is one
  cache,           \* the parser's cache: [entries, pending, made]; entries maps a tape
                   \* index to the parsed string, list or compound, pending holds the
                   \* indices being parsed, made counts (history) the values inserted
  readers,         \* per reader thread, its parse call: [pc, key]
  reads,           \* history: <<reader, tape index, value>> of every parse call that
                   \* has returned, in order
  visit,           \* an NbtVisitorStrategySerial and its visitor: [active,
                   \* container_tape_pos, tape_pos, finished, events, late, status];
                   \* events are the visitor's calls, <<method, tape position>>
  \* ---- One connection: server/src/connection.rs, server/src/packet_handler.rs
  handler,         \* which handler of the repository the task runs: "process_packet"
                   \* (Connection::process_packet) or "default_packet_handler"
  buffer,          \* Connection::buffer, as [head, zeros, tail]: the bytes of head,
                   \* then `zeros` zero bytes, then the bytes of tail
  state,           \* Connection::state, a ConnectionState
  can_request_status, \* Connection::can_request_status, the status guard
  client_information, \* Connection::client_information, an Option
  task,            \* where the task of start_process is: "read" (awaiting
                   \* stream.read), "read_buf" (awaiting stream.read_buf), or how
                   \* it ended: "Ok", an error kind, or "panic"
  wire,            \* bytes the peer has written that the server has not read yet
  peer_closed,     \* the peer has shut its side of the stream
  out,             \* frames the server has written to the stream, in order
  peer_frames,     \* history: the frames the peer has written, in order
  seen_frames,     \* history: the frames parse_packet has found in the buffer, with
                   \* the packet decoded from each and what came of handling it
  aligned,         \* history: every read so far returned exactly one frame of the peer
  \* ---- The handler chain shared by the connection tasks: packet_handler.rs
  packet_handlers, \* PacketHandlerManager::packet_handlers, in push order
  chain_shared,    \* the manager has been put behind Arc<Mutex<..>> and handed out
  manager_lock,    \* the task that holds the tokio Mutex of the manager, 0 for none
  call_pc,         \* per task, where its PacketHandlerManagerHandle::handle_packet
                   \* call is: "idle", "lock", "chain" or "handler"
  call_idx,        \* per task, how many handlers the loop of handle_packet has taken
  call_invoked,    \* history, per task: the handlers invoked for the current packet
  call_result,     \* per task, what its last handle_packet call returned
  \* ---- One application of a wire codec function: protocol/src/buf.rs
  codec            \* [op, input, output]: the function, its input, and its result once
                   \* it has run

\* What the accessors over a parsed tape keep.
cacheVars == <<cache, readers, reads>>

navVars == <<iter, access, origin, cacheVars, visit>>

nbtVars == <<source, is_network_nbt, debug_build, pos, tape, stack, result, looked, navVars>>

connVars == <<handler, buffer, state, can_request_status, client_information, task,
              wire, peer_closed, out, peer_frames, seen_frames, aligned>>

chainVars == <<packet_handlers, chain_shared, manager_lock, call_pc, call_idx,
               call_invoked, call_result>>

vars == <<nbtVars, connVars, chainVars, codec>>

\* What the steps of one part of the model leave alone.
notNbtVars == <<connVars, chainVars, codec>>

notConnVars == <<nbtVars, chainVars, codec>>

notChainVars == <<nbtVars, connVars, codec>>

notCodecVars == <<nbtVars, connVars, chainVars>>

----------------------------------------------------------------------------
(* Generic helpers *)

Min(a, b) == IF a < b THEN a ELSE b

RECURSIVE Pow2(_)
Pow2(n) == IF n = 0 THEN 1 ELSE 2 * Pow2(n - 1)

RECURSIVE SeqsUpTo(_, _)
\* All concatenations of at most n members of the set of sequences S.
SeqsUpTo(S, n) ==
  IF n = 0 THEN {<<>>}
  ELSE LET shorter == SeqsUpTo(S, n - 1)
       IN  shorter \cup {s \o t : s \in shorter, t \in S}

----------------------------------------------------------------------------
(* nbt/src/tag.rs *)

TagEnd == 0
TagByte == 1
TagShort == 2
TagInt == 3
TagLong == 4
TagFloat == 5
TagDouble == 6
TagByteArray == 7
TagString == 8
TagList == 9
TagCompound == 10
TagIntArray == 11
TagLongArray == 12

\* Tag::try_from(u8): Ok for 0..=12, Err(value) otherwise.
TagTryFrom(value) == value < 13

----------------------------------------------------------------------------
(* bytes::Buf reads over the source slice.  Every get_* and advance panics *)
(* when fewer bytes remain than it needs.                                  *)

Remaining(src, p) == Len(src) - p

Bytes(src, p, n) == SubSeq(src, p + 1, p + n)

RECURSIVE BE(_)
\* Big-endian value of a byte sequence.
BE(bs) == IF bs = <<>> THEN 0 ELSE BE(SubSeq(bs, 1, Len(bs) - 1)) * 256 + bs[Len(bs)]

\* get_u16
U16(bs) == BE(bs)

\* get_u32.  The model checker's integers are 32 bits wide: a value with the
\* top bit set is reported as the largest one it can hold.  Every use below
\* compares the value against a buffer size, never stores or multiplies it.
U32(bs) == IF bs[1] >= 128 THEN 2147483647 ELSE BE(bs)

\* A big-endian two's complement number of any width.
Signed(bs) ==
  IF bs[1] >= 128
  THEN 0 - (BE([i \in 1..Len(bs) |-> 255 - bs[i]]) + 1)
  ELSE BE(bs)

\* get_i32
I32(bs) == Signed(bs)

----------------------------------------------------------------------------
(* nbt/src/parse.rs: TapeItem *)

\* TapeItem::new.  `list_data` is <<>> for None and <<tag, len>> for Some.
\* The packed word keeps the list tag byte (0xFF marks a list item) and the
\* list length only when list_data is Some.
TapeItem_new(tag, name_len, source_pos, data, is_list_item, list_data) ==
  [ tag        |-> tag,
    name_len   |-> name_len,
    source_pos |-> source_pos,
    data       |-> data,
    list_tag   |-> IF list_data = <<>> THEN 0
                   ELSE IF is_list_item THEN 255 ELSE list_data[1],
    list_len   |-> IF list_data = <<>> THEN 0 ELSE list_data[2] ]

\* TapeItem::is_list_item
is_list_item(item) == item.list_tag = 255

\* TapeItem::get_list_len
get_list_len(item) == item.list_len

\* TapeItem::get_source_payload_pos
get_source_payload_pos(item) ==
  item.source_pos +
    (IF item.tag = TagEnd THEN 1
     ELSE IF is_list_item(item) THEN 0
     ELSE 3 + item.name_len)

\* tape[p].set_data(d), p zero-based
set_data(tp, p, d) == [tp EXCEPT ![p + 1].data = d]

\* StackItem; list_data: None is is_list = FALSE.  ListData keeps the tag and
\* the length as u32.
StackItem(start, isList, ltag, llen) ==
  [ start_tag_tape_pos |-> start, is_list |-> isList, list_tag |-> ltag, list_len |-> llen ]

Top(stk) == stk[Len(stk)]

Pop(stk) == SubSeq(stk, 1, Len(stk) - 1)

----------------------------------------------------------------------------
(* nbt/src/parse.rs: Tape::parse, one iteration of `while source.has_remaining()` *)

\* What one iteration leaves behind.
Outcome(tp, stk, p, res) == [tape |-> tp, stack |-> stk, pos |-> p, result |-> res]

\* Lines 230-253: the scope on top of the stack is a list.  A finished list
\* gets its synthetic End entry, linked both ways, and is popped; an
\* unfinished one has its remaining count decremented.
ListScopeStep(tp, stk, tag_pos) ==
  IF stk # <<>> /\ Top(stk).is_list
  THEN IF Top(stk).list_len = 0
       THEN [ tape  |-> set_data(Append(tp, TapeItem_new(TagEnd, 0, tag_pos,
                                                        Top(stk).start_tag_tape_pos, TRUE, <<>>)),
                                 Top(stk).start_tag_tape_pos, Len(tp)),
              stack |-> Pop(stk),
              tag_tape_pos |-> Len(tp) + 1 ]
       ELSE [ tape  |-> tp,
              stack |-> [stk EXCEPT ![Len(stk)].list_len = @ - 1],
              tag_tape_pos |-> Len(tp) ]
  ELSE [ tape |-> tp, stack |-> stk, tag_tape_pos |-> Len(tp) ]

\* Lines 255-287: the tag, the name length and the list-item flag of the next
\* value.  In a list scope they are implied and nothing is read; otherwise the
\* tag byte and (unless End, or the root of network NBT) the u16 name length
\* and the name are consumed.  status is "ok", "InvalidTag" or "panic".
ReadHeader(src, p, stk, tag_tape_pos, network) ==
  IF stk # <<>> /\ Top(stk).is_list
  THEN [ status |-> "ok", tag |-> Top(stk).list_tag, name_len |-> 0,
         is_list_item |-> TRUE, pos |-> p ]
  ELSE LET tagByte == src[p + 1]
       IN  IF ~TagTryFrom(tagByte)
           THEN [ status |-> "InvalidTag", tag |-> tagByte, name_len |-> 0,
                  is_list_item |-> FALSE, pos |-> p + 1 ]
           ELSE IF tagByte = TagEnd \/ (network /\ tag_tape_pos = 0)
           THEN [ status |-> "ok", tag |-> tagByte, name_len |-> 0,
                  is_list_item |-> FALSE, pos |-> p + 1 ]
           ELSE IF Remaining(src, p + 1) < 2
           THEN [ status |-> "panic", tag |-> tagByte, name_len |-> 0,
                  is_list_item |-> FALSE, pos |-> p + 1 ]
           ELSE LET nl == U16(Bytes(src, p + 1, 2))
                IN  IF Remaining(src, p + 3) < nl
                    THEN [ status |-> "panic", tag |-> tagByte, name_len |-> nl,
                           is_list_item |-> FALSE, pos |-> p + 3 ]
                    ELSE [ status |-> "ok", tag |-> tagByte, name_len |-> nl,
                           is_list_item |-> FALSE, pos |-> p + 3 + nl ]

\* Lines 320-325: a scalar payload of n bytes is read and kept verbatim in the
\* data word (here: as its n big-endian bytes).
ScalarSize(tag) ==
  CASE tag = TagByte -> 1
    [] tag = TagShort -> 2
    [] tag = TagInt -> 4
    [] tag = TagLong -> 8
    [] tag = TagFloat -> 4
    [] tag = TagDouble -> 8

\* Lines 326-335, 374-383: width of the length prefix and of one element.
LenSize(tag) == IF tag = TagString THEN 2 ELSE 4

ElemSize(tag) ==
  CASE tag = TagByteArray -> 1
    [] tag = TagString -> 1
    [] tag = TagIntArray -> 4
    [] tag = TagLongArray -> 8

\* Lines 308-393: dispatch on the tag, then push the entry.
Dispatch(src, tp, stk, h, tag_pos, tag_tape_pos, dbg) ==
  LET p == h.pos
      push(data, list_data) ==
        Append(tp, TapeItem_new(h.tag, h.name_len, tag_pos, data, h.is_list_item, list_data))
  IN
  CASE h.tag = TagEnd ->
         IF stk = <<>>
         THEN Outcome(tp, stk, p, "UnexpectedEnd")
         ELSE LET start == Top(stk).start_tag_tape_pos
              IN  Outcome(Append(set_data(tp, start, tag_tape_pos),
                                 TapeItem_new(h.tag, h.name_len, tag_pos, start,
                                              h.is_list_item, <<>>)),
                          Pop(stk), p, "running")
    [] h.tag \in {TagByte, TagShort, TagInt, TagLong, TagFloat, TagDouble} ->
         IF Remaining(src, p) < ScalarSize(h.tag)
         THEN Outcome(tp, stk, p, "panic")
         ELSE Outcome(push(Bytes(src, p, ScalarSize(h.tag)), <<>>), stk,
                      p + ScalarSize(h.tag), "running")
    [] h.tag \in {TagByteArray, TagString, TagIntArray, TagLongArray} ->
         IF Remaining(src, p) < LenSize(h.tag)
         THEN Outcome(tp, stk, p, "panic")
         ELSE LET len  == IF h.tag = TagString THEN U16(Bytes(src, p, 2))
                          ELSE U32(Bytes(src, p, 4))
                  rest == Remaining(src, p + LenSize(h.tag))
              IN  IF len > rest \div ElemSize(h.tag)
                  THEN Outcome(tp, stk, p + LenSize(h.tag), "panic")
                  ELSE Outcome(push(len, <<>>), stk,
                               p + LenSize(h.tag) + ElemSize(h.tag) * len, "running")
    [] h.tag = TagList ->
         IF Remaining(src, p) < 5
         THEN Outcome(tp, stk, p, "panic")
         ELSE LET elem == src[p + 1]
                  len  == I32(Bytes(src, p + 1, 4))
              IN  IF ~TagTryFrom(elem)
                  THEN Outcome(tp, stk, p + 5, "InvalidTag")
                  ELSE IF dbg /\ ~(len > 0)
                  THEN \* ListData::new: debug_assert!(len > 0)
                       Outcome(tp, stk, p + 5, "panic")
                  ELSE IF len > 0 /\ elem = TagEnd
                  THEN Outcome(tp, stk, p + 5, "InvalidListType")
                  ELSE Outcome(push(0, <<elem, len>>),
                               IF len > 0
                               THEN Append(stk, StackItem(tag_tape_pos, TRUE, elem, len))
                               ELSE stk,
                               p + 5, "running")
    [] h.tag = TagCompound ->
         Outcome(push(0, <<>>), Append(stk, StackItem(tag_tape_pos, FALSE, 0, 0)),
                 p, "running")

\* Lines 220-394: the whole iteration.
ParseIteration(src, p, tp, stk, network, dbg) ==
  LET a == ListScopeStep(tp, stk, p)
      h == ReadHeader(src, p, a.stack, a.tag_tape_pos, network)
  IN  IF h.status # "ok"
      THEN Outcome(a.tape, a.stack, h.pos, h.status)
      ELSE IF a.tag_tape_pos = 0
      THEN IF h.tag # TagCompound
           THEN Outcome(a.tape, a.stack, h.pos, "WrongStartingTag")
           ELSE Outcome(Append(a.tape, TapeItem_new(TagCompound, h.name_len, 0, 0, FALSE, <<>>)),
                        Append(a.stack, StackItem(0, FALSE, 0, 0)), h.pos, "running")
      ELSE Dispatch(src, a.tape, a.stack, h, p, a.tag_tape_pos, dbg)

----------------------------------------------------------------------------
(* nbt/src/lib.rs, nbt/src/value.rs, nbt/src/node.rs: reading a parsed tape *)

\* Option<T>: None is <<>>, Some(x) is <<x>>.
None == <<>>

Some(x) == <<x>>

\* simd_cesu8::decode_lossy on the bytes the model feeds it: a byte below 0x80
\* is the character itself, and 0xFF, which starts no sequence, becomes U+FFFD.
decode_lossy(bs) == [i \in 1..Len(bs) |-> IF bs[i] < 128 THEN bs[i] ELSE 65533]

\* Nbt::get_name / get_name_at: the name_len bytes at source_pos + 3, decoded.
\* The slice panics when it runs past the source.
get_name_fits(src, tp, tape_pos) ==
  tp[tape_pos + 1].source_pos + 3 + tp[tape_pos + 1].name_len <= Len(src)

get_name_at(src, tp, tape_pos) ==
  decode_lossy(Bytes(src, tp[tape_pos + 1].source_pos + 3, tp[tape_pos + 1].name_len))

\* Nbt::parse_at, the value: scalars carry the payload word cast to their
\* width (Byte, Short, Int as signed numbers; the wider ones as their bytes),
\* the large kinds carry the tape position.
ValueAt(tp, tape_pos) ==
  LET item == tp[tape_pos + 1]
  IN  [ tag   |-> item.tag,
        value |-> IF item.tag \in {TagByte, TagShort, TagInt} THEN Signed(item.data)
                  ELSE IF item.tag \in {TagLong, TagFloat, TagDouble} THEN item.data
                  ELSE tape_pos ]

\* Nbt::parse_at, next_tape_pos: past the matching End for a Compound or a
\* List, the next entry for anything else, 0 for an End.
NextTapePos(tp, tape_pos) ==
  LET item == tp[tape_pos + 1]
  IN  IF item.tag \in {TagCompound, TagList} THEN 1 + item.data
      ELSE IF item.tag = TagEnd THEN 0
      ELSE tape_pos + 1

\* NbtNodeRef { tape_pos: Some(tape_pos), value }
NodeRef(tp, tape_pos) == [tape_pos |-> tape_pos, value |-> ValueAt(tp, tape_pos)]

\* HashMap::insert: a later insert under the same key replaces the value.
MapInsertReplace(map, key, val) == (key :> val) @@ map

HashMap_insert(map, key, val) == MapInsertReplace(map, key, val)

RECURSIVE CompoundWalk(_, _, _, _, _)
\* <NbtCompound as NbtRef>::parse, the loop of value.rs lines 216-235: from
\* tape_pos on, every value up to the End is inserted under its name.  A tape
\* position met twice means the loop never ends ("diverges"); an index past
\* the tape or a name slice past the source panics.
CompoundWalk(src, tp, tape_pos, map, seen) ==
  IF tape_pos >= Len(tp) THEN [status |-> "panic", map |-> map]
  ELSE IF tape_pos \in seen THEN [status |-> "diverges", map |-> map]
  ELSE IF tp[tape_pos + 1].tag = TagEnd THEN [status |-> "ok", map |-> map]
  ELSE IF ~get_name_fits(src, tp, tape_pos) THEN [status |-> "panic", map |-> map]
  ELSE CompoundWalk(src, tp, NextTapePos(tp, tape_pos),
                    HashMap_insert(map, get_name_at(src, tp, tape_pos), NodeRef(tp, tape_pos)),
                    seen \cup {tape_pos})

\* <NbtCompound as NbtRef>::parse for NbtCompound(self0)
NbtCompound_parse(src, tp, self0) == CompoundWalk(src, tp, self0 + 1, <<>>, {})

\* <NbtCompound as NbtMapRef>::get: self.parse(nbt).get(name).copied()
NbtCompound_get(src, tp, self0, name) ==
  LET parsed == NbtCompound_parse(src, tp, self0)
  IN  IF parsed.status # "ok" THEN [status |-> parsed.status, node |-> None]
      ELSE [ status |-> "ok",
             node   |-> IF name \in DOMAIN parsed.map THEN Some(parsed.map[name]) ELSE None ]

RECURSIVE ScanWalk(_, _, _, _, _)
\* NbtCompound::get of nbt/src/lib.rs, the loop: the first entry before the
\* End whose name is `name`.
ScanWalk(src, tp, tape_pos, name, seen) ==
  IF tape_pos >= Len(tp) THEN [status |-> "panic", node |-> None]
  ELSE IF tape_pos \in seen THEN [status |-> "diverges", node |-> None]
  ELSE IF tp[tape_pos + 1].tag = TagEnd THEN [status |-> "ok", node |-> None]
  ELSE IF ~get_name_fits(src, tp, tape_pos) THEN [status |-> "panic", node |-> None]
  ELSE IF get_name_at(src, tp, tape_pos) = name
       THEN [status |-> "ok", node |-> Some(NodeRef(tp, tape_pos))]
  ELSE ScanWalk(src, tp, NextTapePos(tp, tape_pos), name, seen \cup {tape_pos})

\* NbtCompound::get of nbt/src/lib.rs for NbtCompound(self0)
NbtCompound_get_scan(src, tp, self0, name) == ScanWalk(src, tp, self0 + 1, name, {})

\* NbtNode::int(key), for the node of the root compound (NbtCompound(0)):
\* the child found by get, kept only when it is an Int.
RootNode_int(src, tp, name) ==
  IF tp = <<>> THEN [status |-> "panic", value |-> None]
  ELSE LET got == NbtCompound_get(src, tp, 0, name)
       IN  [ status |-> got.status,
             value  |-> IF got.node # None /\ got.node[1].value.tag = TagInt
                        THEN Some(got.node[1].value.value) ELSE None ]

----------------------------------------------------------------------------
(* The NBT inputs of the model: byte strings put together from the pieces   *)
(* below, well formed or not.                                              *)

MaxTokens == 4

NameK == <<107>>

Tokens ==
  { <<10>>,                       \* Compound tag (the root of network NBT)
    <<0>>,                        \* End tag, or a zero byte
    <<10, 0, 0>>,                 \* Compound tag with an empty name
    <<3, 0, 1, 107, 0, 0, 0, 1>>, \* Int "k" = 1
    <<3, 0, 1, 107, 0, 0, 0, 2>>, \* Int "k" = 2
    <<9, 0, 0, 0, 0, 0, 0, 0>>,   \* List "" of End, length 0
    <<9, 0, 0, 1, 0, 0, 0, 1>>,   \* List "" of Byte, length 1
    <<9, 0, 0, 9, 0, 0, 0, 1>>,   \* List "" of List, length 1
    <<1, 0, 0, 0, 1>>,            \* element tag Byte and length 1: the header of a list inside a list
    <<13>>,                       \* no tag
    <<3>>,                        \* Int tag and nothing of its name
    <<8, 0, 0, 0, 2>> }           \* String "" of length 2 without its body

Sources == SeqsUpTo(Tokens, MaxTokens)

NoLookup == [name |-> <<>>, status |-> "none", value |-> None]

\* The connection tasks that share the handler chain.
Tasks == {1, 2}

\* No handler has been pushed and no task has called the chain.
ChainIdle ==
  /\ packet_handlers = <<>>
  /\ chain_shared = FALSE
  /\ manager_lock = 0
  /\ call_pc = [t \in Tasks |-> "idle"]
  /\ call_idx = [t \in Tasks |-> 0]
  /\ call_invoked = [t \in Tasks |-> <<>>]
  /\ call_result = [t \in Tasks |-> "none"]

\* No codec function is applied.
CodecIdle == codec = [op |-> "none", input |-> <<>>, output |-> <<>>]

\* No iterator has been made.
NoIter ==
  [ kind |-> "none", container |-> 0, tape_pos |-> 0, finished |-> FALSE,
    last |-> None, late |-> 0, status |-> "ok" ]

\* No accessor has been called.
NoAccess == [op |-> "none", tape_pos |-> 0, index |-> 0, status |-> "none", value |-> None]

\* The threads that read one parser.
Readers == {1, 2, 3}

\* An empty cache and no parse call.
CacheIdle ==
  /\ cache = [entries |-> <<>>, pending |-> {}, made |-> <<>>]
  /\ readers = [r \in Readers |-> [pc |-> "idle", key |-> 0]]
  /\ reads = <<>>

\* No traversal has been started.
NoVisit ==
  [ active |-> FALSE, container_tape_pos |-> 0, tape_pos |-> 0, finished |-> FALSE,
    events |-> <<>>, late |-> 0, status |-> "ok" ]

\* Nothing reads the tape.
NavIdle ==
  /\ iter = NoIter
  /\ access = NoAccess
  /\ CacheIdle
  /\ visit = NoVisit

\* The source was not written by the serializer.
NoOrigin == [elem |-> TagEnd, values |-> <<>>]

\* No parse is under way.
NbtIdle ==
  /\ source = <<>>
  /\ is_network_nbt = FALSE
  /\ debug_build = FALSE
  /\ pos = 0
  /\ tape = <<>>
  /\ stack = <<>>
  /\ result = "none"
  /\ looked = NoLookup
  /\ NavIdle
  /\ origin = NoOrigin

\* No connection has been accepted.
ConnIdle ==
  /\ handler = "process_packet"
  /\ buffer = [head |-> <<>>, zeros |-> 0, tail |-> <<>>]
  /\ state = 0
  /\ can_request_status = FALSE
  /\ client_information = None
  /\ task = "none"
  /\ wire = <<>>
  /\ peer_closed = FALSE
  /\ out = <<>>
  /\ peer_frames = <<>>
  /\ seen_frames = <<>>
  /\ aligned = TRUE

InitNbt ==
  /\ source \in Sources
  /\ is_network_nbt \in BOOLEAN
  /\ debug_build \in BOOLEAN
  /\ pos = 0
  /\ tape = <<>>
  /\ stack = <<>>
  /\ result = "running"
  /\ looked = NoLookup
  /\ NavIdle
  /\ origin = NoOrigin
  /\ ConnIdle
  /\ ChainIdle
  /\ CodecIdle

\* One iteration of the loop of Tape::parse.
ParseStep ==
  /\ result = "running"
  /\ pos < Len(source)
  /\ LET o == ParseIteration(source, pos, tape, stack, is_network_nbt, debug_build)
     IN  /\ tape' = o.tape
         /\ stack' = o.stack
         /\ pos' = o.pos
         /\ result' = o.result
  /\ UNCHANGED <<source, is_network_nbt, debug_build, looked, navVars, notNbtVars>>

\* Lines 396-401: the input is used up.
ParseReturn ==
  /\ result = "running"
  /\ pos = Len(source)
  /\ result' = IF stack # <<>> THEN "SuddenEnd" ELSE "Ok"
  /\ UNCHANGED <<source, is_network_nbt, debug_build, pos, tape, stack, looked, navVars, notNbtVars>>

\* parser.root().int(name) on the parsed input.
LookupInt(name) ==
  /\ result = "Ok"
  /\ looked.status = "none"
  /\ LET r == RootNode_int(source, tape, name)
     IN  looked' = [name |-> name, status |-> r.status, value |-> r.value]
  /\ UNCHANGED <<source, is_network_nbt, debug_build, pos, tape, stack, result, navVars, notNbtVars>>

NextNbt ==
  \/ ParseStep
  \/ ParseReturn
  \/ \E name \in {NameK, <<>>} : LookupInt(name)

SpecNbt == InitNbt /\ [][NextNbt]_vars

----------------------------------------------------------------------------
(* Reading a parsed tape: nbt/src/iterator.rs, nbt/src/value.rs,           *)
(* nbt/src/node.rs, nbt/src/visitor.rs.  The documents are a root compound  *)
(* holding at most MaxNavItems of the items below, well formed.            *)

MaxNavItems == 2

NavItems ==
  { <<3, 0, 1, 107, 0, 0, 0, 1>>,                  \* Int "k" = 1
    <<8, 0, 1, 115, 0, 2, 97, 98>>,                \* String "s" = "ab"
    <<7, 0, 1, 98, 0, 0, 0, 2, 5, 6>>,             \* ByteArray "b" = [5, 6]
    <<11, 0, 1, 105, 0, 0, 0, 2, 0, 0, 0, 1, 0, 0, 0, 2>>,   \* IntArray "i" = [1, 2]
    <<12, 0, 1, 106, 0, 0, 0, 2, 0, 0, 0, 0, 0, 0, 0, 3,
      0, 0, 0, 0, 0, 0, 0, 4>>,                    \* LongArray "j" = [3, 4]
    <<9, 0, 1, 108, 0, 0, 0, 0, 0>>,               \* List "l" of End, length 0
    <<9, 0, 1, 108, 1, 255, 255, 255, 255>>,       \* List "l" of Byte, length -1
    <<9, 0, 1, 108, 1, 0, 0, 0, 2, 5, 6>>,         \* List "l" of Byte = [5, 6]
    <<9, 0, 1, 108, 8, 0, 0, 0, 1, 0, 1, 97>>,     \* List "l" of String = ["a"]
    <<9, 0, 1, 108, 11, 0, 0, 0, 1, 0, 0, 0, 1, 0, 0, 0, 9>>, \* List "l" of IntArray = [[9]]
    <<9, 0, 1, 108, 9, 0, 0, 0, 2, 1, 0, 0, 0, 1, 7,
      1, 0, 0, 0, 0>>,                             \* List "l" of List = [[7], []]
    <<9, 0, 1, 108, 10, 0, 0, 0, 1,
      3, 0, 1, 107, 0, 0, 0, 1, 0>>,               \* List "l" of Compound = [{k: 1}]
    <<10, 0, 1, 99, 3, 0, 1, 107, 0, 0, 0, 2, 0>> } \* Compound "c" = {k: 2}

\* The root tag as the framing writes it.
NavRoot(network) == IF network THEN <<TagCompound>> ELSE <<TagCompound, 0, 0>>

NavBodies == SeqsUpTo(NavItems, MaxNavItems)

----------------------------------------------------------------------------
(* nbt/src/serde/ser.rs: to_bytes of a struct with one field that is a       *)
(* sequence of i8, i32 or i64.                                              *)

RECURSIVE ToBeBytes(_, _)
\* BufMut::put_i8 / put_i16 / put_i32 / put_i64: the two's complement of v in
\* `width` big-endian bytes.
ToBeBytes(v, width) ==
  IF width = 0 THEN <<>> ELSE ToBeBytes(v \div 256, width - 1) \o <<v % 256>>

\* Serializer::serialize_tag for a tag other than End, Compound and List: when
\* the top of the serializer's stack is a Compound, the tag byte, the length
\* of current_name and current_name are written; the stack is left as it is.
Serializer_serialize_tag(tag, current_name, in_compound) ==
  IF in_compound THEN <<tag>> \o ToBeBytes(Len(current_name), 2) \o current_name ELSE <<>>

\* serialize_i8, serialize_i32, serialize_i64: serialize_tag, then the value.
Serializer_serialize_int(tag, current_name, in_compound, v) ==
  Serializer_serialize_tag(tag, current_name, in_compound) \o ToBeBytes(v, ScalarSize(tag))

\* SerializerSeq::serialize_element, lines 290-302: the array kind chosen from
\* the tag of the first element.
ArrayTagOf(elem) ==
  CASE elem = TagByte -> TagByteArray
    [] elem = TagInt -> TagIntArray
    [] elem = TagLong -> TagLongArray

RECURSIVE SerializeElements(_, _, _)
\* What value.serialize(&mut *self.serializer) writes for each element, the
\* first (into output_hold, appended at line 321) and the later ones (line
\* 323): the top of the stack is the struct's Compound for all of them, since
\* serialize_tag pushes nothing for an array tag.
SerializeElements(elem, current_name, values) ==
  IF values = <<>> THEN <<>>
  ELSE Serializer_serialize_int(elem, current_name, TRUE, Head(values))
         \o SerializeElements(elem, current_name, Tail(values))

\* <Vec<T> as Serialize>::serialize through serialize_seq(Some(len)),
\* serialize_element for each value and end: nothing at all for an empty
\* sequence; otherwise the array tag with the field name, the length, and the
\* elements as they were serialized.
SerializerSeq_serialize(elem, current_name, values) ==
  IF values = <<>> THEN <<>>
  ELSE Serializer_serialize_tag(ArrayTagOf(elem), current_name, TRUE)
         \o ToBeBytes(Len(values), 4)
         \o SerializeElements(elem, current_name, values)

\* The name of the field: "v".
FieldV == <<118>>

\* to_bytes(&S { v: values }): serialize_struct writes the Compound tag with
\* the empty name, serialize_field sets current_name and serializes the
\* sequence, end writes the End tag.
to_bytes(o) ==
  Serializer_serialize_tag(TagCompound, <<>>, TRUE)
    \o SerializerSeq_serialize(o.elem, FieldV, o.values)
    \o <<TagEnd>>

MaxSeqLen == 3

\* The structs that are serialized: every sequence of at most MaxSeqLen
\* values out of -1, 1, 2, as i8, as i32 and as i64.
SeqStructs ==
  { [elem |-> elem, values |-> values] :
      elem \in {TagByte, TagInt, TagLong},
      values \in SeqsUpTo({<<0 - 1>>, <<1>>, <<2>>}, MaxSeqLen) }

----------------------------------------------------------------------------
(* nbt/src/serde/ser.rs: the Serializer with its scope stack.  A value that *)
(* is serialized is kept as [k, name, v, items]: k is "i8", "i32", "str",   *)
(* "seq" or "struct"; name is its field name when it is a field of a        *)
(* struct; v holds the number or the string's bytes; items the elements of  *)
(* a seq or the fields of a struct.  The state s of the serializer is       *)
(* [stack, current_name, output] and, as history, `written`: for every      *)
(* serialize_tag call the tag, whether tag byte and name were written, and  *)
(* where the value stands ("root", "field", "after" for a field that        *)
(* follows a sequence field of the same struct, "element"); for every       *)
(* container that ended, whether the stack is as it was before it.          *)

SerValue(k, name, v, items) == [k |-> k, name |-> name, v |-> v, items |-> items]

\* Serializer::new
Serializer_new == [stack |-> <<>>, current_name |-> <<>>, output |-> <<>>, written |-> <<>>]

\* Vec::pop: an empty stack is left empty.
SerPop(stk) == IF stk = <<>> THEN <<>> ELSE SubSeq(stk, 1, Len(stk) - 1)

SerPut(s, bytes) == [s EXCEPT !.output = @ \o bytes]

\* The first match of serialize_tag for a tag other than End.
SerPushed(s, tag) ==
  CASE tag = TagCompound -> Append(s.stack, "Compound")
    [] tag = TagList -> Append(s.stack, "List")
    [] OTHER -> s.stack

\* The second match of serialize_tag: self.stack.last() is Some(Compound).
SerHeader(stk) == stk # <<>> /\ stk[Len(stk)] = "Compound"

\* Serializer::serialize_tag
Serializer_tag(s, tag, place) ==
  IF tag = TagEnd
  THEN [s EXCEPT !.output = @ \o <<TagEnd>>, !.stack = SerPop(@)]
  ELSE [s EXCEPT
          !.stack = SerPushed(s, tag),
          !.output = IF SerHeader(SerPushed(s, tag))
                     THEN @ \o <<tag>> \o ToBeBytes(Len(s.current_name), 2) \o s.current_name
                     ELSE @,
          !.written = Append(@, [tag |-> tag, place |-> place,
                                 header |-> SerHeader(SerPushed(s, tag))])]

\* A container has ended: is the stack as it was when it began?
SerEnded(s, tag, before) ==
  [s EXCEPT !.written = Append(@, [tag |-> tag, place |-> "end", header |-> s.stack = before])]

SerResult(s, tag) == [s |-> s, tag |-> tag]

\* The tag of the sequence, from the tag of its first element.
SeqTagOf(tag) ==
  CASE tag = TagByte -> TagByteArray
    [] tag = TagInt -> TagIntArray
    [] tag = TagLong -> TagLongArray
    [] OTHER -> TagList

\* SerializerSeq::serialize_element for the first element, which was
\* serialized into output_hold and left the serializer as `held`: the start
\* of the sequence is written to the output of before, then the element.
SeqStart(before, held, tag, len, place) ==
  SerPut(SerPut(SerPut(Serializer_tag([held EXCEPT !.output = before.output], SeqTagOf(tag), place),
                       IF SeqTagOf(tag) = TagList THEN <<tag>> ELSE <<>>),
                ToBeBytes(len, 4)),
         held.output)

RECURSIVE Serialize_serialize(_, _, _)
RECURSIVE SerializeElementsFrom(_, _, _)
RECURSIVE SerializeFieldsFrom(_, _, _, _)

\* SerializerSeq::serialize_element for the elements from the i-th on, i > 1.
SerializeElementsFrom(s, items, i) ==
  IF i > Len(items) THEN s
  ELSE SerializeElementsFrom(Serialize_serialize(s, items[i], "element").s, items, i + 1)

\* <Vec<T> as Serialize>::serialize: serialize_seq(Some(len)), serialize_element
\* for each element, end, which returns list_tag.  first is what serializing
\* the first element into output_hold gave.
SerializeSeq(s, items, first, place) ==
  SerResult(SerEnded(SerializeElementsFrom(SeqStart(s, first.s, first.tag, Len(items), place),
                                           items, 2),
                     SeqTagOf(first.tag), s.stack),
            SeqTagOf(first.tag))

\* SerializeStruct::serialize_field for the fields from the i-th on.
\* afterSeq: a field before the i-th is a sequence that is not empty.
SerializeFieldsFrom(s, fields, i, afterSeq) ==
  IF i > Len(fields) THEN s
  ELSE SerializeFieldsFrom(
         Serialize_serialize([s EXCEPT !.current_name = fields[i].name], fields[i],
                             IF afterSeq THEN "after" ELSE "field").s,
         fields, i + 1,
         afterSeq \/ (fields[i].k = "seq" /\ fields[i].items # <<>>))

\* value.serialize(&mut serializer): serialize_i8, serialize_i32,
\* serialize_str, serialize_seq with its elements, serialize_struct with its
\* fields and end.
Serialize_serialize(s, value, place) ==
  CASE value.k = "i8" ->
         SerResult(SerPut(Serializer_tag(s, TagByte, place), ToBeBytes(value.v[1], 1)), TagByte)
    [] value.k = "i32" ->
         SerResult(SerPut(Serializer_tag(s, TagInt, place), ToBeBytes(value.v[1], 4)), TagInt)
    [] value.k = "str" ->
         SerResult(SerPut(Serializer_tag(s, TagString, place),
                          ToBeBytes(Len(value.v), 2) \o value.v), TagString)
    [] value.k = "seq" ->
         IF value.items = <<>> THEN SerResult(s, TagList)
         ELSE SerializeSeq(s, value.items,
                           Serialize_serialize([s EXCEPT !.output = <<>>], value.items[1],
                                               "element"),
                           place)
    [] value.k = "struct" ->
         SerResult(SerEnded(Serializer_tag(SerializeFieldsFrom(
                                             Serializer_tag(s, TagCompound, place),
                                             value.items, 1, FALSE),
                                           TagEnd, place),
                            TagCompound, s.stack),
                   TagCompound)

\* to_bytes: the output, with the serializer as it is left.
Serializer_to_bytes(value) == Serialize_serialize(Serializer_new, value, "root").s

MaxSerLen == 2

FieldB == <<98>>

\* The elements and the scalar fields.
SerScalars(name) ==
  {SerValue("i8", name, <<1>>, <<>>), SerValue("i32", name, <<2>>, <<>>),
   SerValue("str", name, <<97>>, <<>>)}

\* struct Inner { b: i8 }
SerInner(name) == SerValue("struct", name, <<>>, <<SerValue("i8", FieldB, <<1>>, <<>>)>>)

\* Vec<i8>, Vec<i32>, Vec<String> and Vec<Inner> of at most MaxSerLen elements.
SerSeqs(name) ==
  {SerValue("seq", name, <<>>, [i \in 1..n |-> e]) :
     n \in 0..MaxSerLen, e \in SerScalars(<<>>) \cup {SerInner(<<>>)}}

SerFields(name) == SerScalars(name) \cup SerSeqs(name) \cup {SerInner(name)}

\* The structs handed to to_bytes: a field v, or a field v and then a field b.
SerStructs ==
  {SerValue("struct", <<>>, <<>>, <<f>>) : f \in SerFields(FieldV)}
    \cup {SerValue("struct", <<>>, <<>>, <<f, g>>) : f \in SerFields(FieldV), g \in SerFields(FieldB)}

InitNav ==
  /\ debug_build \in BOOLEAN
  /\ \/ /\ origin = NoOrigin
        /\ is_network_nbt \in BOOLEAN
        /\ source \in {NavRoot(is_network_nbt) \o body \o <<TagEnd>> : body \in NavBodies}
     \/ /\ origin \in SeqStructs
        /\ is_network_nbt = FALSE
        /\ source = to_bytes(origin)
  /\ pos = 0
  /\ tape = <<>>
  /\ stack = <<>>
  /\ result = "running"
  /\ looked = NoLookup
  /\ NavIdle
  /\ ConnIdle
  /\ ChainIdle
  /\ CodecIdle

\* The tape positions of the Compound and List entries.
Containers(tp) == {p \in 0..(Len(tp) - 1) : tp[p + 1].tag \in {TagCompound, TagList}}

\* NbtIterator::from_node for the node of the container at tape_pos (from_root
\* is the same for the root, tape_pos 0).
NbtIterator_from_node(tp, tape_pos) ==
  [ kind      |-> IF tp[tape_pos + 1].tag = TagCompound THEN "Compound" ELSE "List",
    container |-> tape_pos,
    tape_pos  |-> tape_pos + 1,
    finished  |-> FALSE,
    last      |-> None,
    late      |-> 0,
    status    |-> "ok" ]

\* <NbtIterator as Iterator>::next.  `last` is what the call returned; `late`
\* counts the calls made after the iterator has finished.  parse_at indexes
\* the tape and get_name_at slices the source; both panic out of range.
NbtIterator_next(src, tp, it) ==
  IF it.finished THEN [it EXCEPT !.last = None, !.late = @ + 1]
  ELSE IF it.tape_pos >= Len(tp) THEN [it EXCEPT !.status = "panic"]
  ELSE IF tp[it.tape_pos + 1].tag = TagEnd
       THEN [it EXCEPT !.finished = TRUE, !.last = None]
  ELSE IF it.kind = "Compound" /\ ~get_name_fits(src, tp, it.tape_pos)
       THEN [it EXCEPT !.status = "panic"]
  ELSE [it EXCEPT !.last = Some(NodeRef(tp, it.tape_pos)),
                  !.tape_pos = NextTapePos(tp, it.tape_pos)]

\* How many calls of next() after the last one the model follows.
MaxLateCalls == 2

\* node.iter() on a container of the parsed tape.
IterFromNode(tape_pos) ==
  /\ result = "Ok"
  /\ NavIdle
  /\ tape_pos \in Containers(tape)
  /\ iter' = NbtIterator_from_node(tape, tape_pos)
  /\ UNCHANGED <<source, is_network_nbt, debug_build, pos, tape, stack, result, looked,
                 access, origin, cacheVars, visit, notNbtVars>>

\* One call of next() on the iterator.
IterNext ==
  /\ iter.kind # "none"
  /\ iter.status = "ok"
  /\ iter.late < MaxLateCalls
  /\ iter' = NbtIterator_next(source, tape, iter)
  /\ UNCHANGED <<source, is_network_nbt, debug_build, pos, tape, stack, result, looked,
                 access, origin, cacheVars, visit, notNbtVars>>

\* The tape positions of the entries with the tag.
Tagged(tp, tag) == {p \in 0..(Len(tp) - 1) : tp[p + 1].tag = tag}

\* What every accessor call leaves alone.
AccessFrame ==
  UNCHANGED <<source, is_network_nbt, debug_build, pos, tape, stack, result, looked, iter,
              origin, cacheVars, visit, notNbtVars>>

\* One accessor is called on the entry at tape_pos of the returned tape.
AccessCall(op, tape_pos, index, r) ==
  /\ access' = [op |-> op, tape_pos |-> tape_pos, index |-> index,
                status |-> r.status, value |-> r.value]
  /\ AccessFrame

RECURSIVE ListWalk(_, _, _, _)
\* <NbtList as NbtRef>::parse, the loop of value.rs lines 154-169: from
\* tape_pos on, every value up to the next End is pushed.  A tape position
\* met twice means the loop never ends; an index past the tape panics.
ListWalk(tp, tape_pos, vec, seen) ==
  IF tape_pos >= Len(tp) THEN [status |-> "panic", value |-> vec]
  ELSE IF tape_pos \in seen THEN [status |-> "diverges", value |-> vec]
  ELSE IF tp[tape_pos + 1].tag = TagEnd THEN [status |-> "ok", value |-> vec]
  ELSE ListWalk(tp, NextTapePos(tp, tape_pos), Append(vec, NodeRef(tp, tape_pos)),
                seen \cup {tape_pos})

\* <NbtList as NbtRef>::parse for NbtList(self0).  Vec::with_capacity(list_len
\* as usize) panics with a capacity overflow when the i32 length is negative.
NbtList_parse(tp, self0) ==
  IF get_list_len(tp[self0 + 1]) < 0 THEN [status |-> "panic", value |-> <<>>]
  ELSE ListWalk(tp, self0 + 1, <<>>, {})

\* list.parse(parser) on a List entry of the returned tape.
ListParse(tape_pos) ==
  /\ result = "Ok"
  /\ NavIdle
  /\ tape_pos \in Tagged(tape, TagList)
  /\ AccessCall("NbtList_parse", tape_pos, 0, NbtList_parse(tape, tape_pos))

\* <NbtList as NbtMapRef>::get for NbtList(self0).  The i32 length cast to
\* usize is above every index when it is negative; parse_at indexes the tape
\* and panics past its end.
NbtList_get(tp, self0, index) ==
  IF get_list_len(tp[self0 + 1]) >= 0 /\ index >= get_list_len(tp[self0 + 1])
  THEN [status |-> "ok", value |-> None]
  ELSE IF self0 + index >= Len(tp) THEN [status |-> "panic", value |-> None]
  ELSE [status |-> "ok", value |-> Some(NodeRef(tp, self0 + index))]

\* list.get(parser, index) on a List entry of the returned tape; the getters
\* of node.rs keyed by index hand out the same entry.
ListGet(tape_pos, index) ==
  /\ result = "Ok"
  /\ NavIdle
  /\ tape_pos \in Tagged(tape, TagList)
  /\ AccessCall("NbtList_get", tape_pos, index, NbtList_get(tape, tape_pos, index))

\* NbtNode::name for the node bound to tape_pos: None for an entry that
\* reports is_list_item(), else the name get_name_at slices from the source,
\* which panics when the slice starts or ends past the source.
NbtNode_name(src, tp, tape_pos) ==
  IF is_list_item(tp[tape_pos + 1]) THEN [status |-> "ok", value |-> None]
  ELSE IF ~get_name_fits(src, tp, tape_pos) THEN [status |-> "panic", value |-> None]
  ELSE [status |-> "ok", value |-> Some(get_name_at(src, tp, tape_pos))]

\* node.name() on an entry of the returned tape that is not an End.
NodeName(tape_pos) ==
  /\ result = "Ok"
  /\ NavIdle
  /\ tape_pos \in 0..(Len(tape) - 1)
  /\ tape[tape_pos + 1].tag # TagEnd
  /\ AccessCall("NbtNode_name", tape_pos, 0, NbtNode_name(source, tape, tape_pos))

\* The integer an accessor hands out for `width` source bytes: i8 and i32 as
\* numbers, i64 as its eight big-endian bytes.
FromBeBytes(bs) == IF Len(bs) = 8 THEN bs ELSE Signed(bs)

\* <NbtByteArray as NbtMapRef>::get (width 1), <NbtIntArray as NbtMapRef>::get
\* (width 4) and <NbtLongArray as NbtMapRef>::get (width 8), which differ in
\* the width only: None when index >= get_data(), else the `width` bytes of
\* the source at get_source_payload_pos() + index; a slice past the source
\* panics.
Array_get(src, item, index, width) ==
  IF index >= item.data THEN [status |-> "ok", value |-> None]
  ELSE IF get_source_payload_pos(item) + index + width > Len(src)
       THEN [status |-> "panic", value |-> None]
  ELSE [ status |-> "ok",
         value  |-> Some(FromBeBytes(Bytes(src, get_source_payload_pos(item) + index, width))) ]

\* The indices the model asks for: 0 .. MaxIndex.
MaxIndex == 2

\* array.get(parser, index) on an array entry of the returned tape.
ArrayGet(tape_pos, index) ==
  /\ result = "Ok"
  /\ NavIdle
  /\ tape_pos \in Tagged(tape, TagByteArray) \cup Tagged(tape, TagIntArray)
                   \cup Tagged(tape, TagLongArray)
  /\ AccessCall("Array_get", tape_pos, index,
                Array_get(source, tape[tape_pos + 1], index, ElemSize(tape[tape_pos + 1].tag)))

\* <NbtString as NbtRef>::parse for the entry `item`, the closure of lines
\* 124-131: decode_lossy of the get_data() bytes of the source from
\* get_source_payload_pos() on.  The slice panics past the source.
NbtString_parse(src, item) ==
  IF get_source_payload_pos(item) + item.data > Len(src)
  THEN [status |-> "panic", value |-> None]
  ELSE [ status |-> "ok",
         value  |-> Some(decode_lossy(Bytes(src, get_source_payload_pos(item), item.data))) ]

\* string.parse(parser) on a String entry of the returned tape.
StringParse(tape_pos) ==
  /\ result = "Ok"
  /\ NavIdle
  /\ tape_pos \in Tagged(tape, TagString)
  /\ AccessCall("NbtString_parse", tape_pos, 0, NbtString_parse(source, tape[tape_pos + 1]))

\* bytemuck::cast_slice hands out the source bytes as they lie in memory: an
\* element is read in the byte order of the host.
NativeInt(bs, little) ==
  FromBeBytes(IF little THEN [i \in 1..Len(bs) |-> bs[Len(bs) + 1 - i]] ELSE bs)

\* <NbtByteArray as NbtRef>::parse (width 1), <NbtIntArray as NbtRef>::parse
\* (width 4), <NbtLongArray as NbtRef>::parse (width 8): the width * get_data()
\* bytes of the source from get_source_payload_pos() on, cast to the element
\* type.  The slice panics past the source; cast_slice panics when the
\* address of the slice is not a multiple of the element's alignment, which
\* depends on where the source buffer lies (`fits`).
Array_parse(src, item, width, fits, little) ==
  IF get_source_payload_pos(item) + width * item.data > Len(src)
  THEN [status |-> "panic", value |-> None]
  ELSE IF width > 1 /\ ~fits
  THEN [status |-> "panic", value |-> None]
  ELSE [ status |-> "ok",
         value  |-> Some([i \in 1..item.data |->
                           NativeInt(Bytes(src, get_source_payload_pos(item) + (i - 1) * width,
                                           width), little)]) ]

\* item_getter_ref! of node.rs on the result `got` of get(key): the parsed
\* array when the child is there and of the wanted kind, None otherwise.
Node_array_of(src, tp, got, tag, fits, little) ==
  IF got.status # "ok" THEN [status |-> got.status, value |-> None]
  ELSE IF got.node = None THEN [status |-> "ok", value |-> None]
  ELSE IF got.node[1].value.tag # tag THEN [status |-> "ok", value |-> None]
  ELSE Array_parse(src, tp[got.node[1].tape_pos + 1], ElemSize(tag), fits, little)

\* NbtNode::byte_array(key), int_array(key), long_array(key) on the root node.
RootNode_array(src, tp, name, tag, fits, little) ==
  Node_array_of(src, tp, NbtCompound_get(src, tp, 0, name), tag, fits, little)

\* The names asked for: "v" and "i".
FieldNames == {FieldV, <<105>>}

\* root.byte_array(name), root.int_array(name) or root.long_array(name) on the
\* returned tape, on a host of either byte order and with the source buffer
\* at an address that suits the cast or not.  The key of the call is the
\* name with the kind of array asked for.
FieldArray(name, tag, fits, little) ==
  /\ result = "Ok"
  /\ NavIdle
  /\ tape # <<>>
  /\ AccessCall("RootNode_array", 0, <<name, tag>>,
                RootNode_array(source, tape, name, tag, fits, little))

NextNav ==
  \/ ParseStep
  \/ ParseReturn
  \/ \E tape_pos \in 0..(Len(tape) - 1) : IterFromNode(tape_pos)
  \/ IterNext
  \/ \E tape_pos \in 0..(Len(tape) - 1) : ListParse(tape_pos)
  \/ \E tape_pos \in 0..(Len(tape) - 1), index \in 0..MaxIndex : ArrayGet(tape_pos, index)
  \/ \E tape_pos \in 0..(Len(tape) - 1) : StringParse(tape_pos)
  \/ \E tape_pos \in 0..(Len(tape) - 1), index \in 0..MaxIndex : ListGet(tape_pos, index)
  \/ \E tape_pos \in 0..(Len(tape) - 1) : NodeName(tape_pos)
  \/ \E name \in FieldNames, tag \in {TagByteArray, TagIntArray, TagLongArray},
        fits \in BOOLEAN, little \in BOOLEAN : FieldArray(name, tag, fits, little)

SpecNav == InitNav /\ [][NextNav]_vars

\* Parsing and iterating alone: an iterator is used while nothing else reads
\* the tape.
NextIter ==
  \/ ParseStep
  \/ ParseReturn
  \/ \E tape_pos \in 0..(Len(tape) - 1) : IterFromNode(tape_pos)
  \/ IterNext

\* The caller of an iterator keeps calling next() until it returns None.
SpecNavLive == InitNav /\ [][NextIter]_vars /\ WF_vars(IterNext)

----------------------------------------------------------------------------
(* nbt/src/visitor.rs: NbtVisitorStrategySerial, driven by node.visit       *)
(* (nbt/src/node.rs lines 229-254) with a visitor whose methods return Ok   *)
(* and note the call.                                                       *)

\* from_root (container 0) and from_container.
NbtVisitorStrategySerial_from_container(tape_pos) ==
  [ active |-> TRUE, container_tape_pos |-> tape_pos, tape_pos |-> tape_pos,
    finished |-> FALSE, events |-> <<>>, late |-> 0, status |-> "ok" ]

\* The End arm of step: the End carries the tape position of the entry that
\* opened its container, whose tag picks leave_compound or leave_list; any
\* other tag is unreachable!().
StepEnd(tp, v, start) ==
  IF tp[start + 1].tag \notin {TagCompound, TagList}
  THEN [v EXCEPT !.status = "panic"]
  ELSE [v EXCEPT !.finished = (start = v.container_tape_pos),
                 !.events = Append(@, <<IF tp[start + 1].tag = TagCompound
                                         THEN "leave_compound" ELSE "leave_list", start>>),
                 !.tape_pos = @ + 1]

\* The visitor's method for an entry that is not an End.
EventOf(tag) ==
  IF tag = TagCompound THEN "enter_compound"
  ELSE IF tag = TagList THEN "enter_list"
  ELSE "visit_value"

\* NbtVisitorStrategySerial::step.  parse_at indexes the tape, which panics
\* past its end.
NbtVisitorStrategySerial_step(tp, v) ==
  IF v.finished THEN [v EXCEPT !.late = @ + 1]
  ELSE IF v.tape_pos >= Len(tp) THEN [v EXCEPT !.status = "panic"]
  ELSE IF tp[v.tape_pos + 1].tag = TagEnd THEN StepEnd(tp, v, tp[v.tape_pos + 1].data)
  ELSE [v EXCEPT !.events = Append(@, <<EventOf(tp[v.tape_pos + 1].tag), v.tape_pos>>),
                 !.tape_pos = @ + 1]

\* node.visit(visitor) on a container of the parsed tape.
VisitFrom(tape_pos) ==
  /\ result = "Ok"
  /\ NavIdle
  /\ tape_pos \in Containers(tape)
  /\ visit' = NbtVisitorStrategySerial_from_container(tape_pos)
  /\ UNCHANGED <<source, is_network_nbt, debug_build, pos, tape, stack, result, looked,
                 iter, access, origin, cacheVars, notNbtVars>>

\* One call of step() on the strategy.
VisitStep ==
  /\ visit.active
  /\ visit.status = "ok"
  /\ visit.late < MaxLateCalls
  /\ visit' = NbtVisitorStrategySerial_step(tape, visit)
  /\ UNCHANGED <<source, is_network_nbt, debug_build, pos, tape, stack, result, looked,
                 iter, access, origin, cacheVars, notNbtVars>>

NextVisit ==
  \/ ParseStep
  \/ ParseReturn
  \/ \E tape_pos \in 0..(Len(tape) - 1) : VisitFrom(tape_pos)
  \/ VisitStep

SpecVisit == InitNav /\ [][NextVisit]_vars

----------------------------------------------------------------------------
(* nbt/src/serde/de.rs: Deserializer, read by a consumer that takes         *)
(* whatever the data holds (deserialize_any for keys, values and elements,  *)
(* as serde's Value types do).  The state d of the deserializer is          *)
(* [strategy, visit_this_first, stack]; a call gives [d, st, value].  What  *)
(* a leaf holds is the matter of the accessors above: a leaf value is kept  *)
(* as the tape position it was read from.                                   *)

\* Deserializer::from_parser
Deserializer_from_parser ==
  [ strategy         |-> NbtVisitorStrategySerial_from_container(0),
    visit_this_first |-> None,
    stack            |-> <<>> ]

DeResult(d, st, value) == [d |-> d, st |-> st, value |-> value]

\* What step() has just handed to the DeserializerVisitor.
LastVisit(v) == v.events[Len(v.events)]

\* Deserializer::visit once the strategy has stepped to v.
VisitStepped(d, v) ==
  IF v.status = "panic" THEN DeResult(d, "panic", None)
  ELSE DeResult([d EXCEPT !.strategy = v], "ok", LastVisit(v))

\* Deserializer::visit: the visit put aside, or the next step of the
\* strategy, Error::Eof when it has none.
Deserializer_visit(tp, d) ==
  IF d.visit_this_first # None
  THEN DeResult([d EXCEPT !.visit_this_first = None], "ok", d.visit_this_first[1])
  ELSE IF d.strategy.finished THEN DeResult(d, "Eof", None)
  ELSE VisitStepped(d, NbtVisitorStrategySerial_step(tp, d.strategy))

\* self.stack.push(item)
DePush(d, item) == [d EXCEPT !.stack = Append(@, item)]

\* self.stack.pop()
DePop(d) == [d EXCEPT !.stack = IF @ = <<>> THEN @ ELSE SubSeq(@, 1, Len(@) - 1)]

\* deserialize_identifier after visit() gave r: the visit is put aside and
\* the name of its node is the key; a leave ends the keys.
IdentifierOf(src, tp, r, name) ==
  IF r.st # "ok" THEN r
  ELSE IF r.value[1] \in {"leave_compound", "leave_list"}
  THEN DeResult(r.d, "NoMoreValues", None)
  ELSE IF name.status = "panic" THEN DeResult(r.d, "panic", None)
  ELSE IF name.value = None
  THEN DeResult([r.d EXCEPT !.visit_this_first = Some(r.value)], "NoName", None)
  ELSE DeResult([r.d EXCEPT !.visit_this_first = Some(r.value)], "ok", name.value[1])

\* The node whose name deserialize_identifier asks for.
NameFor(src, tp, r) ==
  IF r.st = "ok" /\ r.value[2] < Len(tp) THEN NbtNode_name(src, tp, r.value[2])
  ELSE [status |-> "ok", value |-> None]

deserialize_identifier(src, tp, d) ==
  IdentifierOf(src, tp, Deserializer_visit(tp, d), NameFor(src, tp, Deserializer_visit(tp, d)))

RECURSIVE deserialize_any(_, _, _)
RECURSIVE visit_map(_, _, _, _, _)
RECURSIVE visit_seq(_, _, _, _, _)
RECURSIVE MapValue(_, _, _, _, _)
RECURSIVE AnyOf(_, _, _)

\* <&mut Deserializer as Deserializer>::deserialize_any
deserialize_any(src, tp, d) ==
  IF /\ d.visit_this_first = None
     /\ d.stack # <<>>
     /\ d.stack[Len(d.stack)] = "Compound"
  THEN deserialize_identifier(src, tp, d)
  ELSE AnyOf(src, tp, Deserializer_visit(tp, d))

\* The match of deserialize_any on the visit r.
AnyOf(src, tp, r) ==
  IF r.st # "ok" THEN r
  ELSE CASE r.value[1] = "visit_value" ->
              DeResult(r.d, "ok", [kind |-> "leaf", tape_pos |-> r.value[2]])
         [] r.value[1] = "enter_compound" ->
              visit_map(src, tp, DePush(r.d, "Compound"), Len(r.d.stack) + 1, <<>>)
         [] r.value[1] = "leave_compound" -> deserialize_any(src, tp, r.d)
         [] r.value[1] = "enter_list" ->
              visit_seq(src, tp, DePush(r.d, "List"), Len(r.d.stack) + 1, <<>>)
         [] r.value[1] = "leave_list" -> DeResult(r.d, "NoMoreValues", None)

\* The consumer's visit_map: next_key_seed, then next_value_seed, until
\* there is no key.  next_key_seed pops the scope on NoMoreValues.
visit_map(src, tp, d, depth, pairs) ==
  MapValue(src, tp, deserialize_any(src, tp, d), depth, pairs)

\* next_value_seed after next_key_seed gave k.
MapValue(src, tp, k, depth, pairs) ==
  IF k.st = "NoMoreValues"
  THEN DeResult(DePop(k.d), "ok", [kind |-> "Compound", depth |-> depth, pairs |-> pairs])
  ELSE IF k.st # "ok" THEN k
  ELSE IF deserialize_any(src, tp, k.d).st # "ok" THEN deserialize_any(src, tp, k.d)
  ELSE visit_map(src, tp, deserialize_any(src, tp, k.d).d, depth,
                 Append(pairs, <<k.value, deserialize_any(src, tp, k.d).value>>))

\* The consumer's visit_seq: next_element_seed until there is no element.
\* next_element_seed pops the scope on NoMoreValues.
visit_seq(src, tp, d, depth, items) ==
  IF deserialize_any(src, tp, d).st = "NoMoreValues"
  THEN DeResult(DePop(deserialize_any(src, tp, d).d), "ok",
                [kind |-> "List", depth |-> depth, items |-> items])
  ELSE IF deserialize_any(src, tp, d).st # "ok" THEN deserialize_any(src, tp, d)
  ELSE visit_seq(src, tp, deserialize_any(src, tp, d).d, depth,
                 Append(items, deserialize_any(src, tp, d).value))

\* from_parser: T::deserialize(&mut Deserializer::from_parser(parser)); the
\* value comes with the scope stack the deserializer is left with.
from_parser(src, tp) ==
  [ status |-> deserialize_any(src, tp, Deserializer_from_parser).st,
    value  |-> [ value |-> deserialize_any(src, tp, Deserializer_from_parser).value,
                 stack |-> deserialize_any(src, tp, Deserializer_from_parser).d.stack ] ]

\* from_parser on the returned tape.
FromParser ==
  /\ result = "Ok"
  /\ NavIdle
  /\ AccessCall("from_parser", 0, 0, from_parser(source, tape))

NextDe ==
  \/ ParseStep
  \/ ParseReturn
  \/ FromParser

SpecDe == InitNav /\ [][NextDe]_vars

----------------------------------------------------------------------------
(* The parse cache.  nbt/src/value.rs shows how NbtString::parse,           *)
(* NbtList::parse and NbtCompound::parse use it:                            *)
(*   nbt.with_cache(|inner_nbt, cache| cache.lists.insert(self.0, |_| ..))  *)
(* NbtParser::with_cache and the maps themselves are not among the sources; *)
(* they are modelled as the specification describes them: index-keyed maps  *)
(* that are written once per key, with at most one materialization per     *)
(* tape index under concurrent access.  A tape index has one tag, so the    *)
(* three maps are kept as one.                                              *)

MaxCacheItems == 1

\* How many parse calls the readers make in all.
MaxCalls == 3

\* How often the value under key has been inserted.
Made(c, key) == IF key \in DOMAIN c.made THEN c.made[key] ELSE 0

\* The map has a value under key.
OnceMap_has(c, key) == key \in DOMAIN c.entries

\* A map without the exclusion: any caller that finds no value materializes
\* one.
OnceMap_claimable_racy(c, key) == TRUE

\* No other caller is materializing the value under key.
OnceMap_claimable(c, key) == key \notin c.pending

\* The caller becomes the one that materializes the value under key.
OnceMap_claim(c, key) == [c EXCEPT !.pending = @ \cup {key}]

\* The closure has returned: the value goes in under key unless the key has
\* a value already, which is kept.
OnceMap_insert(c, key, value) ==
  [c EXCEPT !.entries = IF key \in DOMAIN @ THEN @ ELSE (key :> value) @@ @,
            !.pending = @ \ {key},
            !.made    = (key :> (Made(c, key) + 1)) @@ @]

\* The closure has panicked: nothing goes in and the key is free again.
OnceMap_release(c, key) == [c EXCEPT !.pending = @ \ {key}]

\* The result of NbtCompound::parse's closure, the map, as a value.
CompoundClosure(r) == [status |-> r.status, value |-> r.map]

\* The closure handed to insert by NbtString::parse (value.rs lines 124-131),
\* NbtList::parse (lines 148-172) and NbtCompound::parse (lines 213-238) for
\* the entry at tape position key.
Materialize(src, tp, key) ==
  CASE tp[key + 1].tag = TagString -> NbtString_parse(src, tp[key + 1])
    [] tp[key + 1].tag = TagList -> NbtList_parse(tp, key)
    [] tp[key + 1].tag = TagCompound -> CompoundClosure(NbtCompound_parse(src, tp, key))

\* The tape positions of the entries whose parse goes through the cache.
Cacheable(tp) == Tagged(tp, TagString) \cup Tagged(tp, TagList) \cup Tagged(tp, TagCompound)

\* The parse calls begun so far: the ones that returned, and the ones under
\* way, aborted or stuck.
CallsBegun == Len(reads) + Cardinality({r \in Readers : readers[r].pc # "idle"})

CacheFrame ==
  UNCHANGED <<source, is_network_nbt, debug_build, pos, tape, stack, result, looked, iter,
              access, origin, visit, notNbtVars>>

\* The reader's call returns the value the map has under key.
ReaderReturns(r, key, c) ==
  /\ reads' = Append(reads, <<r, key, c.entries[key]>>)
  /\ readers' = [readers EXCEPT ![r] = [pc |-> "idle", key |-> 0]]

\* The reader goes on to run the closure for key.
ReaderClaims(r, key) ==
  /\ cache' = OnceMap_claim(cache, key)
  /\ readers' = [readers EXCEPT ![r] = [pc |-> "making", key |-> key]]
  /\ UNCHANGED reads

\* A reader thread calls parse on the entry at tape position key: insert
\* finds the value, or lets the caller materialize it, or has the caller wait
\* for the thread that is materializing it.
ReaderCall(r, key) ==
  /\ result = "Ok"
  /\ iter = NoIter
  /\ access = NoAccess
  /\ readers[r].pc = "idle"
  /\ CallsBegun < MaxCalls
  /\ key \in Cacheable(tape)
  /\ IF OnceMap_has(cache, key)
     THEN ReaderReturns(r, key, cache) /\ UNCHANGED cache
     ELSE IF OnceMap_claimable(cache, key)
     THEN ReaderClaims(r, key)
     ELSE /\ readers' = [readers EXCEPT ![r] = [pc |-> "waiting", key |-> key]]
          /\ UNCHANGED <<cache, reads>>
  /\ CacheFrame

\* What the end of the closure does, m being its outcome: the value is
\* inserted and returned; or the panic unwinds the thread; or the loop of the
\* closure never ends.
ReaderMade(r, key, m) ==
  IF m.status = "ok"
  THEN /\ cache' = OnceMap_insert(cache, key, m.value)
       /\ ReaderReturns(r, key, OnceMap_insert(cache, key, m.value))
  ELSE IF m.status = "panic"
  THEN /\ cache' = OnceMap_release(cache, key)
       /\ readers' = [readers EXCEPT ![r].pc = "panic"]
       /\ UNCHANGED reads
  ELSE /\ readers' = [readers EXCEPT ![r].pc = "spin"]
       /\ UNCHANGED <<cache, reads>>

\* The closure of a reader runs.
ReaderMake(r) ==
  /\ readers[r].pc = "making"
  /\ ReaderMade(r, readers[r].key, Materialize(source, tape, readers[r].key))
  /\ CacheFrame

\* A waiting reader goes on once no thread is materializing its key.
ReaderWake(r) ==
  /\ readers[r].pc = "waiting"
  /\ OnceMap_claimable(cache, readers[r].key)
  /\ IF OnceMap_has(cache, readers[r].key)
     THEN ReaderReturns(r, readers[r].key, cache) /\ UNCHANGED cache
     ELSE ReaderClaims(r, readers[r].key)
  /\ CacheFrame

InitCache ==
  /\ debug_build \in BOOLEAN
  /\ origin = NoOrigin
  /\ is_network_nbt \in BOOLEAN
  /\ source \in {NavRoot(is_network_nbt) \o body \o <<TagEnd>> :
                   body \in SeqsUpTo(NavItems, MaxCacheItems)}
  /\ pos = 0
  /\ tape = <<>>
  /\ stack = <<>>
  /\ result = "running"
  /\ looked = NoLookup
  /\ NavIdle
  /\ ConnIdle
  /\ ChainIdle
  /\ CodecIdle

NextCache ==
  \/ ParseStep
  \/ ParseReturn
  \/ \E r \in Readers, key \in 0..(Len(tape) - 1) : ReaderCall(r, key)
  \/ \E r \in Readers : ReaderMake(r)
  \/ \E r \in Readers : ReaderWake(r)

SpecCache == InitCache /\ [][NextCache]_vars

----------------------------------------------------------------------------
(* protocol/src/buf.rs: wire primitives over a byte sequence.  A reader     *)
(* returns [st, v, rest]: st is "ok", an error kind, or "panic"; rest is    *)
(* what is left of the input after the read.                               *)

Rd(st, v, rest) == [st |-> st, v |-> v, rest |-> rest]

Drop(bs, n) == SubSeq(bs, n + 1, Len(bs))

Take(bs, n) == SubSeq(bs, 1, n)

\* value |= ((byte & 0x7F) as i32) << position, on an i32: the bits shifted
\* past bit 31 are lost and bit 31 is the sign.
VarintOr(value, seg, position) ==
  IF position < 28 THEN value + seg * Pow2(position)
  ELSE IF (seg \div 8) % 2 = 1
       THEN ((value + (seg % 8) * Pow2(28)) - 2147483647) - 1
       ELSE value + (seg % 8) * Pow2(28)

RECURSIVE VarintLoop(_, _, _, _, _)
\* The loop shared by get_varint_with_at_most and try_get_varint_with_at_most.
\* `try` tells which: on an empty buffer the first panics in get_u8, the second
\* returns None ("none").
VarintLoop(bs, value, position, bytes, try) ==
  IF bs = <<>> THEN Rd(IF try THEN "none" ELSE "panic", 0, bs)
  ELSE LET byte == bs[1]
           v    == VarintOr(value, byte % 128, position)
       IN  IF byte < 128 THEN Rd("ok", v, Drop(bs, 1))
           ELSE IF position + 7 >= bytes * 8 THEN Rd("VarIntTooBig", 0, Drop(bs, 1))
           ELSE VarintLoop(Drop(bs, 1), v, position + 7, bytes, try)

get_varint_with_at_most(bs, bytes) == VarintLoop(bs, 0, 0, bytes, FALSE)

try_get_varint_with_at_most(bs, bytes) == VarintLoop(bs, 0, 0, bytes, TRUE)

\* A get_varint that stops one byte earlier.
get_varint_3(bs) == get_varint_with_at_most(bs, 3)

\* get_varint: get_varint_with_at_most(buf, 4)
get_varint(bs) == get_varint_with_at_most(bs, 4)

\* ((varint as u32) >> 7) as i32: the shift is logical, so a negative value
\* becomes a positive one of at most 25 bits.
ShrU32_7(varint) ==
  IF varint >= 0 THEN varint \div 128 ELSE (varint \div 128) + Pow2(25)

RECURSIVE put_varint(_)
\* put_varint: `varint & !0x7F == 0` holds for 0..127 only.
put_varint(varint) ==
  IF varint >= 0 /\ varint < 128 THEN <<varint>>
  ELSE <<(varint % 128) + 128>> \o put_varint(ShrU32_7(varint))

RECURSIVE Utf8Valid(_)
\* std::str::from_utf8, as read_to_string applies it.
Utf8Valid(bs) ==
  LET n       == Len(bs)
      b       == bs[1]
      cont(i) == i <= n /\ bs[i] >= 128 /\ bs[i] <= 191
      in(i, lo, hi) == i <= n /\ bs[i] >= lo /\ bs[i] <= hi
  IN  IF bs = <<>> THEN TRUE
      ELSE IF b < 128 THEN Utf8Valid(Drop(bs, 1))
      ELSE IF b >= 194 /\ b <= 223 THEN cont(2) /\ Utf8Valid(Drop(bs, 2))
      ELSE IF b = 224 THEN in(2, 160, 191) /\ cont(3) /\ Utf8Valid(Drop(bs, 3))
      ELSE IF b = 237 THEN in(2, 128, 159) /\ cont(3) /\ Utf8Valid(Drop(bs, 3))
      ELSE IF b >= 225 /\ b <= 239 THEN cont(2) /\ cont(3) /\ Utf8Valid(Drop(bs, 3))
      ELSE IF b = 240 THEN in(2, 144, 191) /\ cont(3) /\ cont(4) /\ Utf8Valid(Drop(bs, 4))
      ELSE IF b >= 241 /\ b <= 243 THEN cont(2) /\ cont(3) /\ cont(4) /\ Utf8Valid(Drop(bs, 4))
      ELSE IF b = 244 THEN in(2, 128, 143) /\ cont(3) /\ cont(4) /\ Utf8Valid(Drop(bs, 4))
      ELSE FALSE

\* get_string: a varint length (negative: try_into().unwrap() panics), then
\* at most that many bytes (take(len) stops at the end of the buffer), which
\* must be UTF-8.  Strings are kept as their bytes.
get_string(bs) ==
  LET l == get_varint(bs)
  IN  IF l.st # "ok" THEN Rd(l.st, <<>>, l.rest)
      ELSE IF l.v < 0 THEN Rd("panic", <<>>, l.rest)
      ELSE LET n == Min(l.v, Len(l.rest))
           IN  IF Utf8Valid(Take(l.rest, n))
               THEN Rd("ok", Take(l.rest, n), Drop(l.rest, n))
               ELSE Rd("GetStringError", <<>>, Drop(l.rest, n))

\* Buf::get_u8 / get_u16 / get_i64 / get_u128: big-endian, panic when short.
\* The value is kept as the bytes read.
get_fixed(bs, n) ==
  IF Len(bs) < n THEN Rd("panic", <<>>, bs) ELSE Rd("ok", Take(bs, n), Drop(bs, n))

\* get_bool: buf.get_u8() == 0x01
get_bool(bs) ==
  IF bs = <<>> THEN Rd("panic", FALSE, bs) ELSE Rd("ok", bs[1] = 1, Drop(bs, 1))

\* The decode the derive writes for a #[protocol(varint)] enum with variants
\* 0 .. last: from_i32(get_varint(buf)?).unwrap()
get_varint_enum(bs, last) ==
  LET v == get_varint(bs)
  IN  IF v.st # "ok" THEN v
      ELSE IF v.v < 0 \/ v.v > last THEN Rd("panic", 0, v.rest)
      ELSE v

\* Cow<[u8]> with ArrayProtocolContext::LengthPrefixed
get_sized_bytes(bs) ==
  LET l == get_varint(bs)
  IN  IF l.st # "ok" THEN Rd(l.st, <<>>, l.rest)
      ELSE IF l.v < 0 \/ l.v > Len(l.rest) THEN Rd("panic", <<>>, l.rest)
      ELSE Rd("ok", Take(l.rest, l.v), Drop(l.rest, l.v))

----------------------------------------------------------------------------
(* protocol/src/identifier.rs *)

Colon == <<58>>

StrMinecraft == <<109, 105, 110, 101, 99, 114, 97, 102, 116>>

StrCore == <<99, 111, 114, 101>>

Str1_21 == <<49, 46, 50, 49>>

\* 'a'..='z' | '0'..='9' | '.' | '-' | '_'
IdentChar(c) ==
  \/ c >= 97 /\ c <= 122
  \/ c >= 48 /\ c <= 57
  \/ c \in {46, 45, 95}

RECURSIVE IdentScan(_, _, _)
\* The loop of Identifier::from_string from byte index i (zero-based):
\* the colon index found, or -1 for an illegal character.
IdentScan(string, i, colon_i) ==
  IF i >= Len(string) THEN colon_i
  ELSE LET c == string[i + 1]
       IN  IF IdentChar(c) THEN IdentScan(string, i + 1, colon_i)
           ELSE IF c = 58 /\ colon_i = 0 THEN IdentScan(string, i + 1, i)
           ELSE IF c = 47 /\ colon_i # 0 THEN IdentScan(string, i + 1, colon_i)
           ELSE 0 - 1

\* Identifier::from_string: [st, namespace (an Option), value]
Identifier_from_string(string) ==
  LET colon_i == IdentScan(string, 0, 0)
  IN  IF colon_i < 0 THEN [st |-> "IllegalCharacter", namespace |-> None, value |-> <<>>]
      ELSE IF colon_i = 0 THEN [st |-> "ok", namespace |-> None, value |-> string]
      ELSE [ st        |-> "ok",
             namespace |-> Some(Take(string, colon_i)),
             value     |-> Drop(string, colon_i + 1) ]

IDENTIFIER_MAX_LEN == 32767

\* Identifier::from_string on `string` followed by `pad` letters 'a', which is
\* how the model writes a long string: the length check comes first, and the
\* loop passes the letters without a change to colon_i, so they end up at the
\* end of the value.  [st, namespace, value, pad]
Identifier_from_string_padded(string, pad) ==
  IF Len(string) + pad > IDENTIFIER_MAX_LEN
  THEN [st |-> "TooLong", namespace |-> None, value |-> <<>>, pad |-> 0]
  ELSE IF Identifier_from_string(string).st # "ok"
  THEN [st |-> "IllegalCharacter", namespace |-> None, value |-> <<>>, pad |-> 0]
  ELSE [ st        |-> "ok",
         namespace |-> Identifier_from_string(string).namespace,
         value     |-> Identifier_from_string(string).value,
         pad       |-> pad ]

\* Identifier::namespace
Identifier_namespace(id) == IF id.namespace = None THEN StrMinecraft ELSE id.namespace[1]

\* get_identifier: get_string, then String::try_into
get_identifier(bs) ==
  LET s == get_string(bs)
  IN  IF s.st # "ok" THEN s
      ELSE LET id == Identifier_from_string(s.v)
           IN  IF id.st # "ok" THEN Rd("GetIdentifierError", <<>>, s.rest)
               ELSE Rd("ok", [namespace |-> id.namespace, value |-> id.value], s.rest)

----------------------------------------------------------------------------
(* protocol/src/lib.rs, packet/src/server.rs: the serverbound catalogue     *)

Handshaking == 0
Status == 1
Login == 2
Configuration == 3
Play == 4

ConnectionStates == {Handshaking, Status, Login, Configuration, Play}

\* The last variant of ConnectionState, ChatMode and Hand.
ConnectionStateLast == 4
ChatModeLast == 2
HandLast == 1

Dec(st, packet) == [st |-> st, packet |-> packet]

NoPacket == [name |-> "none"]

\* HandshakePacket::decode
HandshakePacket_decode(bs) ==
  LET protocol_version == get_varint(bs)
      server_address   == get_string(protocol_version.rest)
      server_port      == get_fixed(server_address.rest, 2)
      next_state       == get_varint_enum(server_port.rest, ConnectionStateLast)
  IN  IF protocol_version.st # "ok" THEN Dec(protocol_version.st, NoPacket)
      ELSE IF server_address.st # "ok" THEN Dec(server_address.st, NoPacket)
      ELSE IF server_port.st # "ok" THEN Dec(server_port.st, NoPacket)
      ELSE IF next_state.st # "ok" THEN Dec(next_state.st, NoPacket)
      ELSE Dec("ok", [ name             |-> "HandshakePacket",
                       protocol_version |-> protocol_version.v,
                       server_address   |-> server_address.v,
                       server_port      |-> server_port.v,
                       next_state       |-> next_state.v ])

\* PingRequestPacket::decode
PingRequestPacket_decode(bs) ==
  LET payload == get_fixed(bs, 8)
  IN  IF payload.st # "ok" THEN Dec(payload.st, NoPacket)
      ELSE Dec("ok", [name |-> "PingRequestPacket", payload |-> payload.v])

\* LoginStartPacket::decode
LoginStartPacket_decode(bs) ==
  LET player_username == get_string(bs)
      player_uuid     == get_fixed(player_username.rest, 16)
  IN  IF player_username.st # "ok" THEN Dec(player_username.st, NoPacket)
      ELSE IF player_uuid.st # "ok" THEN Dec(player_uuid.st, NoPacket)
      ELSE Dec("ok", [ name            |-> "LoginStartPacket",
                       player_username |-> player_username.v,
                       player_uuid     |-> player_uuid.v ])

\* EncryptionResponsePacket::decode
EncryptionResponsePacket_decode(bs) ==
  LET shared_secret == get_sized_bytes(bs)
      verify_token  == get_sized_bytes(shared_secret.rest)
  IN  IF shared_secret.st # "ok" THEN Dec(shared_secret.st, NoPacket)
      ELSE IF verify_token.st # "ok" THEN Dec(verify_token.st, NoPacket)
      ELSE Dec("ok", [ name          |-> "EncryptionResponsePacket",
                       shared_secret |-> shared_secret.v,
                       verify_token  |-> verify_token.v ])

\* LoginPluginResponsePacket::decode; `data` takes every byte that remains.
LoginPluginResponsePacket_decode(bs) ==
  LET message_id == get_varint(bs)
      successful == get_bool(message_id.rest)
  IN  IF message_id.st # "ok" THEN Dec(message_id.st, NoPacket)
      ELSE IF successful.st # "ok" THEN Dec(successful.st, NoPacket)
      ELSE Dec("ok", [ name       |-> "LoginPluginResponsePacket",
                       message_id |-> message_id.v,
                       successful |-> successful.v,
                       data       |-> successful.rest ])

\* ClientInformationPacket::decode
ClientInformationPacket_decode(bs) ==
  LET locale     == get_string(bs)
      view       == get_fixed(locale.rest, 1)
      chat_mode  == get_varint_enum(view.rest, ChatModeLast)
      colors     == get_bool(chat_mode.rest)
      skin       == get_fixed(colors.rest, 1)
      main_hand  == get_varint_enum(skin.rest, HandLast)
      filtering  == get_bool(main_hand.rest)
      listings   == get_bool(filtering.rest)
  IN  IF locale.st # "ok" THEN Dec(locale.st, NoPacket)
      ELSE IF view.st # "ok" THEN Dec(view.st, NoPacket)
      ELSE IF chat_mode.st # "ok" THEN Dec(chat_mode.st, NoPacket)
      ELSE IF colors.st # "ok" THEN Dec(colors.st, NoPacket)
      ELSE IF skin.st # "ok" THEN Dec(skin.st, NoPacket)
      ELSE IF main_hand.st # "ok" THEN Dec(main_hand.st, NoPacket)
      ELSE IF filtering.st # "ok" THEN Dec(filtering.st, NoPacket)
      ELSE IF listings.st # "ok" THEN Dec(listings.st, NoPacket)
      ELSE Dec("ok", [ name                  |-> "ClientInformationPacket",
                       locale                |-> locale.v,
                       view_distance         |-> view.v,
                       chat_mode             |-> chat_mode.v,
                       chat_colors           |-> colors.v,
                       displayed_skin_parts  |-> skin.v,
                       main_hand             |-> main_hand.v,
                       enable_text_filtering |-> filtering.v,
                       allow_server_listings |-> listings.v ])

\* ServerboundPluginMessagePacket::decode; `data` takes every byte that remains.
ServerboundPluginMessagePacket_decode(bs) ==
  LET channel_identifier == get_identifier(bs)
  IN  IF channel_identifier.st # "ok" THEN Dec(channel_identifier.st, NoPacket)
      ELSE Dec("ok", [ name               |-> "ServerboundPluginMessagePacket",
                       channel_identifier |-> channel_identifier.v,
                       data               |-> channel_identifier.rest ])

\* The packet ids each group of the catalogue has a variant for.
CatalogueIds(connection_state) ==
  CASE connection_state = Handshaking   -> {0}
    [] connection_state = Status        -> {0, 1}
    [] connection_state = Login         -> {0, 1, 2, 3}
    [] connection_state = Configuration -> {0, 2}
    [] connection_state = Play          -> {0}

\* ServerPacket::decode: the group of the connection state, then the variant
\* of the packet id; an id with no variant is InvalidPacketId.
ServerPacket_decode(bs, connection_state, packet_id) ==
  IF packet_id \notin CatalogueIds(connection_state) THEN Dec("InvalidPacketId", NoPacket)
  ELSE CASE connection_state = Handshaking -> HandshakePacket_decode(bs)
         [] connection_state = Status /\ packet_id = 0 ->
              Dec("ok", [name |-> "StatusRequestPacket"])
         [] connection_state = Status /\ packet_id = 1 -> PingRequestPacket_decode(bs)
         [] connection_state = Login /\ packet_id = 0 -> LoginStartPacket_decode(bs)
         [] connection_state = Login /\ packet_id = 1 -> EncryptionResponsePacket_decode(bs)
         [] connection_state = Login /\ packet_id = 2 -> LoginPluginResponsePacket_decode(bs)
         [] connection_state = Login /\ packet_id = 3 ->
              Dec("ok", [name |-> "LoginAcknowledgedPacket"])
         [] connection_state = Configuration /\ packet_id = 0 ->
              ClientInformationPacket_decode(bs)
         [] connection_state = Configuration /\ packet_id = 2 ->
              ServerboundPluginMessagePacket_decode(bs)
         [] connection_state = Play -> Dec("ok", [name |-> "None1"])

\* packet::check_packet.  `bs` holds the first bytes of the buffer, as many as
\* the two varints can take, and `total` is the length of the whole buffer.
\* The outcome is "Incomplete", an error, "panic", or "ok" with the length,
\* the id and the number of bytes the cursor has passed (the two varints).
\* The length goes into a u16 with try_into().unwrap().
check_packet(bs, total) ==
  LET len == try_get_varint_with_at_most(bs, 3)
      id  == get_varint(len.rest)
      remaining == total - (Len(bs) - Len(len.rest))
      res(st, l, i, position) == [st |-> st, len |-> l, packet_id |-> i, position |-> position]
  IN  IF len.st = "none" THEN res("Incomplete", 0, 0, 0)
      ELSE IF len.st # "ok" THEN res(len.st, 0, 0, 0)
      ELSE IF remaining < len.v THEN res("Incomplete", 0, 0, 0)
      ELSE IF id.st # "ok" THEN res(id.st, 0, 0, 0)
      ELSE IF len.v > 65535 THEN res("panic", 0, 0, 0)
      ELSE res("ok", len.v, id.v, Len(bs) - Len(id.rest))

----------------------------------------------------------------------------
(* server/src/connection.rs: the buffer.  Connection::new makes it 4096     *)
(* zero bytes; it is kept as the bytes written at its front (head), the    *)
(* zero bytes never written (zeros) and the bytes appended (tail).         *)

BufferSize == 4096

TARGET_PROTOCOL_VERSION == 767

BufLen(b) == Len(b.head) + b.zeros + Len(b.tail)

\* Byte i of the buffer, i zero-based.
BufAt(b, i) ==
  IF i < Len(b.head) THEN b.head[i + 1]
  ELSE IF i < Len(b.head) + b.zeros THEN 0
  ELSE b.tail[i + 1 - Len(b.head) - b.zeros]

\* The n bytes from offset `from` on.
BufSlice(b, from, n) == [k \in 1..n |-> BufAt(b, from + k - 1)]

\* BytesMut::advance(cnt), cnt <= len: the first cnt bytes go.
BufAdvance(b, cnt) ==
  LET fromHead  == Min(cnt, Len(b.head))
      fromZeros == Min(cnt - fromHead, b.zeros)
      fromTail  == cnt - fromHead - fromZeros
  IN  [ head  |-> Drop(b.head, fromHead),
        zeros |-> b.zeros - fromZeros,
        tail  |-> Drop(b.tail, fromTail) ]

\* stream.read(&mut self.buffer) that returned Len(data) bytes: they are
\* written over the front of the buffer, whose length does not change.
BufOverwrite(b, data) ==
  LET after == BufAdvance(b, Len(data))
  IN  [after EXCEPT !.head = data \o after.head]

\* stream.read_buf(&mut self.buffer) that returned Len(data) bytes: they are
\* appended to the buffer.
BufAppend(b, data) == [b EXCEPT !.tail = b.tail \o data]

ParseResult(o, found, chk, packet, nb, handed) ==
  [ st |-> o, found |-> found, len |-> chk.len, packet_id |-> chk.packet_id,
    packet |-> packet, buffer |-> nb, handed |-> handed ]

\* parse_packet from `ServerPacket::decode(..)?` on, `bytes` being what
\* copy_to_bytes gave the decoder: an error leaves the buffer as it is, a
\* packet advances it by full_len.
parse_packet_decoded(b, chk, bytes, decoded) ==
  IF decoded.st # "ok" THEN ParseResult(decoded.st, TRUE, chk, NoPacket, b, Len(bytes))
  ELSE ParseResult("packet", TRUE, chk, decoded.packet, BufAdvance(b, chk.position),
                   Len(bytes))

\* parse_packet once buf.copy_to_bytes(len) has returned `bytes`.
parse_packet_copied(b, st, chk, bytes) ==
  parse_packet_decoded(b, chk, bytes, ServerPacket_decode(bytes, st, chk.packet_id))

\* parse_packet from the outcome chk of check_packet on; full_len is
\* chk.position.
parse_packet_checked(b, st, chk) ==
  IF chk.st # "ok" THEN ParseResult(chk.st, FALSE, chk, NoPacket, b, 0)
  ELSE IF BufLen(b) - chk.position < chk.len
       THEN \* copy_to_bytes(len) with fewer than len bytes after the id
            ParseResult("panic", TRUE, chk, NoPacket, b, 0)
  ELSE parse_packet_copied(b, st, chk, BufSlice(b, chk.position, chk.len))

\* Connection::parse_packet on buffer b in connection state st.  The outcome
\* is "packet" (with the buffer advanced), "Incomplete", an error or "panic".
parse_packet(b, st) ==
  parse_packet_checked(b, st, check_packet(BufSlice(b, 0, Min(BufLen(b), 9)), BufLen(b)))

----------------------------------------------------------------------------
(* server/src/packet_handler.rs, server/src/connection.rs: the handlers.    *)
(* c is the connection's [state, can_request_status, client_information];  *)
(* a handler returns its result, the connection afterwards and the frames  *)
(* it has sent.  The stream takes every write.                             *)

H(st, c, sent) == [st |-> st, c |-> c, sent |-> sent]

\* The status response frame.  Its JSON body is fixed but for the sample
\* player's id, a fresh random UUID, and is left out.
StatusResponseFrame == [id |-> 0, name |-> "StatusResponsePacket"]

PongResponseFrame(payload) == [id |-> 1, name |-> "PongResponsePacket", payload |-> payload]

LoginSuccessFrame(uuid, username) ==
  [ id |-> 2, name |-> "LoginSuccessPacket", player_uuid |-> uuid,
    player_username |-> username, properties |-> <<>>, strict_error_handling |-> TRUE ]

\* ClientboundKnownPacksPacket with the one KnownPack of the handler, as it
\* is encoded: the identifier as two strings, namespace() and value().
KnownPacksFrame ==
  LET identifier == Identifier_from_string(StrCore)
  IN  [ id |-> 14, name |-> "ClientboundKnownPacksPacket",
        known_packs |-> << [ namespace |-> Identifier_namespace(identifier),
                             value     |-> identifier.value,
                             version   |-> Str1_21 ] >> ]

\* A handshake that skips the version check.
HandleHandshake_unchecked(packet, c) ==
  H("Ok", [c EXCEPT !.state = packet.next_state, !.can_request_status = TRUE], <<>>)

\* The HandshakePacket arm.
HandleHandshake(packet, c) ==
  IF packet.protocol_version # TARGET_PROTOCOL_VERSION
  THEN H("IncompatibleProtocolVersion", c, <<>>)
  ELSE H("Ok", [c EXCEPT !.state = packet.next_state, !.can_request_status = TRUE], <<>>)

\* A status request arm that leaves the guard as it is.
HandleStatusRequest_noreset(c) ==
  IF ~c.can_request_status THEN H("Ok", c, <<>>) ELSE H("Ok", c, <<StatusResponseFrame>>)

\* The StatusRequestPacket arm.
HandleStatusRequest(c) ==
  IF ~c.can_request_status THEN H("Ok", c, <<>>)
  ELSE H("Ok", [c EXCEPT !.can_request_status = FALSE], <<StatusResponseFrame>>)

\* A ping request arm that answers nothing.
HandlePingRequest_silent(packet, c) == H("Ok", c, <<>>)

\* The PingRequestPacket arm.
HandlePingRequest(packet, c) == H("Ok", c, <<PongResponseFrame(packet.payload)>>)

\* The LoginStartPacket arm.
HandleLoginStart(packet, c) ==
  H("Ok", c, <<LoginSuccessFrame(packet.player_uuid, packet.player_username)>>)

\* The LoginAcknowledgedPacket arm of default_packet_handler.
HandleLoginAcknowledged(c) == H("Ok", [c EXCEPT !.state = Configuration], <<KnownPacksFrame>>)

\* The LoginAcknowledgedPacket arm of Connection::process_packet.
process_packet_LoginAcknowledged(c) == H("Ok", [c EXCEPT !.state = Configuration], <<>>)

\* ClientInformationPacket into ClientInformation
ClientInformation_from(packet) ==
  [ locale                |-> packet.locale,
    view_distance         |-> packet.view_distance,
    chat_mode             |-> packet.chat_mode,
    chat_colors           |-> packet.chat_colors,
    displayed_skin_parts  |-> packet.displayed_skin_parts,
    main_hand             |-> packet.main_hand,
    enable_text_filtering |-> packet.enable_text_filtering,
    allow_server_listings |-> packet.allow_server_listings ]

\* The ClientInformationPacket arm.
HandleClientInformation(packet, c) ==
  H("Ok", [c EXCEPT !.client_information = Some(ClientInformation_from(packet))], <<>>)

\* The arms the two handlers share; login_acknowledged is the arm in which
\* they differ.
HandlerArms(packet, c, login_acknowledged) ==
  CASE packet.name = "HandshakePacket"          -> HandleHandshake(packet, c)
    [] packet.name = "StatusRequestPacket"      -> HandleStatusRequest(c)
    [] packet.name = "PingRequestPacket"        -> HandlePingRequest(packet, c)
    [] packet.name = "LoginStartPacket"         -> HandleLoginStart(packet, c)
    [] packet.name = "LoginAcknowledgedPacket"  -> login_acknowledged
    [] packet.name \in {"EncryptionResponsePacket", "LoginPluginResponsePacket"} ->
         \* _ => todo!()
         H("panic", c, <<>>)
    [] packet.name = "ServerboundPluginMessagePacket" -> H("Ok", c, <<>>)
    [] packet.name = "ClientInformationPacket"  -> HandleClientInformation(packet, c)
    [] packet.name = "None1"                    ->
         \* ServerPacket::Play(_) => todo!()
         H("panic", c, <<>>)

\* packet_handler.rs: default_packet_handler
default_packet_handler(packet, c) == HandlerArms(packet, c, HandleLoginAcknowledged(c))

\* connection.rs: Connection::process_packet
process_packet(packet, c) == HandlerArms(packet, c, process_packet_LoginAcknowledged(c))

\* The handler the task runs.
Handle(h, packet, c) ==
  IF h = "process_packet" THEN process_packet(packet, c) ELSE default_packet_handler(packet, c)

----------------------------------------------------------------------------
(* The peer: the frames it may write, and the connection task.             *)

MaxFrames == 3

SplitLen == 2

\* A frame as Connection::send_packet lays it out: the varint length of id
\* and payload, the varint id, the payload.
Frame(id, payload) ==
  put_varint(Len(put_varint(id)) + Len(payload)) \o put_varint(id) \o payload

\* put_string
put_string(string) == put_varint(Len(string)) \o string

StrLocalhost == <<108, 111, 99, 97, 108, 104, 111, 115, 116>>

Port25565 == <<99, 221>>

\* The three frames of scenario S1 as the specification prints them.  The
\* handshake's version bytes F7 05 are the varint of 759.
S1Handshake == <<16, 0, 247, 5, 9, 108, 111, 99, 97, 108, 104, 111, 115, 116, 99, 221, 1>>

S1StatusRequest == <<1, 0>>

S1PingRequest == <<9, 1, 0, 0, 0, 0, 0, 0, 0, 42>>

Payload2A == <<0, 0, 0, 0, 0, 0, 0, 42>>

\* The handshake of S1 with the version bytes FF 05, the varint of 767.
S1Handshake767 == <<16, 0, 255, 5, 9, 108, 111, 99, 97, 108, 104, 111, 115, 116, 99, 221, 1>>

\* A handshake for the target version, localhost:25565, and next state `next`.
HandshakeFrame(next) ==
  Frame(0, put_varint(TARGET_PROTOCOL_VERSION) \o put_string(StrLocalhost) \o Port25565
           \o put_varint(next))

NameA == <<97>>

UuidU == <<1, 2, 3, 4, 5, 6, 7, 8, 9, 10, 11, 12, 13, 14, 15, 16>>

LoginStartFrame == Frame(0, put_string(NameA) \o UuidU)

\* Id 0x03 with no payload: login_acknowledged in Login, and the id protocol
\* 767 gives acknowledge_finish in Configuration.
AcknowledgeFrame == Frame(3, <<>>)

\* Id 0x01 with two empty arrays: an encryption response in Login.
EncryptionResponseFrame == Frame(1, <<0, 0>>)

\* Id 0x05, which no serverbound group has.
UnknownIdFrame == Frame(5, <<>>)

Prefs == <<2, 101, 110, 8, 0, 1, 127, 1, 0, 1>>

\* client_information: locale "en", view distance 8, and so on.
ClientInformationFrame == Frame(0, Prefs)

\* The first two bytes of a frame of 4096 bytes.
LongFrameHeader == put_varint(BufferSize)

PeerFrames ==
  { S1Handshake, S1StatusRequest, S1PingRequest,
    S1Handshake767, HandshakeFrame(Handshaking), HandshakeFrame(Login),
    HandshakeFrame(Configuration),
    LoginStartFrame, AcknowledgeFrame, EncryptionResponseFrame, UnknownIdFrame,
    ClientInformationFrame, LongFrameHeader }

RECURSIVE SumLen(_)
SumLen(frames) == IF frames = <<>> THEN 0 ELSE Len(frames[1]) + SumLen(Drop(frames, 1))

\* The byte offsets, in all the peer has written, at which a frame ends.
Boundaries == {SumLen(Take(peer_frames, k)) : k \in 0..Len(peer_frames)}

\* How many of the peer's bytes the server has read.
Consumed == SumLen(peer_frames) - Len(wire)

\* From the first unread byte to the end of the frame it is in.
NextBoundary ==
  LET later == {b \in Boundaries : b > Consumed}
  IN  IF later = {} THEN 0
      ELSE (CHOOSE b \in later : \A o \in later : b <= o) - Consumed

\* What one read may return when the wire is not empty: SplitLen bytes, the
\* bytes up to the next end of a frame, or all there is.
ReadLens ==
  {n \in {SplitLen, NextBoundary, Min(Len(wire), BufLen(buffer))} :
     n >= 1 /\ n <= Len(wire) /\ n <= BufLen(buffer)}

IsFrameRead(n) == Consumed \in Boundaries /\ n = NextBoundary

Conn == [ state |-> state, can_request_status |-> can_request_status,
          client_information |-> client_information ]

SeenFrame(pp, phase, outcome) ==
  [ phase |-> phase, len |-> pp.len, packet_id |-> pp.packet_id, packet |-> pp.packet,
    outcome |-> outcome, handed |-> pp.handed ]

TaskStep(t, nb, nc, sent, found) ==
  [task |-> t, buffer |-> nb, c |-> nc, sent |-> sent, found |-> found]

\* start_process after process_packet returned r for the packet of pp: Ok
\* goes back to the read, anything else ends the task.
AfterHandle(pp, c, r) ==
  TaskStep(IF r.st = "Ok" THEN "read" ELSE r.st, pp.buffer, r.c, r.sent,
           <<SeenFrame(pp, c.state, r.st)>>)

\* read_packet after parse_packet returned pp.
AfterParse(pp, b, c, h) ==
  IF pp.st = "Incomplete" THEN TaskStep("read_buf", b, c, <<>>, <<>>)
  ELSE IF pp.st = "packet" THEN AfterHandle(pp, c, Handle(h, pp.packet, c))
  ELSE TaskStep(pp.st, b, c, <<>>,
                IF pp.found THEN <<SeenFrame(pp, c.state, pp.st)>> ELSE <<>>)

\* What the task does once bytes have come in and the buffer is b:
\* parse_packet, then the handler on the packet, if there is one.
AfterBytes(b, c, h) == AfterParse(parse_packet(b, c.state), b, c, h)

Running == task \in {"read", "read_buf"}

InitConn ==
  /\ source = <<>>
  /\ is_network_nbt = FALSE
  /\ debug_build = FALSE
  /\ pos = 0
  /\ tape = <<>>
  /\ stack = <<>>
  /\ result = "none"
  /\ looked = NoLookup
  /\ NavIdle
  /\ origin = NoOrigin
  /\ handler \in {"process_packet", "default_packet_handler"}
  /\ buffer = [head |-> <<>>, zeros |-> BufferSize, tail |-> <<>>]
  /\ state = Handshaking
  /\ can_request_status = FALSE
  /\ client_information = None
  /\ task = "read"
  /\ wire = <<>>
  /\ peer_closed = FALSE
  /\ out = <<>>
  /\ peer_frames = <<>>
  /\ seen_frames = <<>>
  /\ aligned = TRUE
  /\ ChainIdle
  /\ CodecIdle

\* The peer writes one frame.
PeerSend(frame) ==
  /\ Running
  /\ ~peer_closed
  /\ Len(peer_frames) < MaxFrames
  /\ wire' = wire \o frame
  /\ peer_frames' = Append(peer_frames, frame)
  /\ UNCHANGED <<notConnVars, handler, buffer, state, can_request_status, client_information,
                 task, peer_closed, out, seen_frames, aligned>>

\* The peer shuts its side of the stream.
PeerClose ==
  /\ Running
  /\ ~peer_closed
  /\ peer_closed' = TRUE
  /\ UNCHANGED <<notConnVars, handler, buffer, state, can_request_status, client_information,
                 task, wire, out, peer_frames, seen_frames, aligned>>

\* The connection after the task has taken n bytes of the wire and come to a.
Arrive(n, a) ==
  /\ wire' = Drop(wire, n)
  /\ aligned' = (aligned /\ IsFrameRead(n))
  /\ buffer' = a.buffer
  /\ state' = a.c.state
  /\ can_request_status' = a.c.can_request_status
  /\ client_information' = a.c.client_information
  /\ task' = a.task
  /\ out' = out \o a.sent
  /\ seen_frames' = seen_frames \o a.found
  /\ UNCHANGED <<notConnVars, handler, peer_closed, peer_frames>>

\* The connection after the task has taken n bytes of the wire into buffer b.
Received(n, b) == Arrive(n, AfterBytes(b, Conn, handler))

\* start_process: stream.read(&mut self.buffer) returns, and what follows up
\* to the next await.  A read into an empty buffer, or at the end of the
\* stream, returns 0.
StartProcessRead ==
  /\ task = "read"
  /\ IF BufLen(buffer) = 0 \/ (wire = <<>> /\ peer_closed)
     THEN /\ task' = "Ok"
          /\ UNCHANGED <<notConnVars, handler, buffer, state, can_request_status,
                         client_information, wire, peer_closed, out, peer_frames,
                         seen_frames, aligned>>
     ELSE \E n \in ReadLens : Received(n, BufOverwrite(buffer, Take(wire, n)))

\* read_packet: stream.read_buf(&mut self.buffer) returns, and what follows up
\* to the next await.
ReadPacketReadBuf ==
  /\ task = "read_buf"
  /\ IF wire = <<>>
     THEN /\ peer_closed
          /\ task' = IF BufLen(buffer) = 0 THEN "read" ELSE "ResetByPeer"
          /\ UNCHANGED <<notConnVars, handler, buffer, state, can_request_status,
                         client_information, wire, peer_closed, out, peer_frames,
                         seen_frames, aligned>>
     ELSE \E n \in ReadLens : Received(n, BufAppend(buffer, Take(wire, n)))

NextConn ==
  \/ \E frame \in PeerFrames : PeerSend(frame)
  \/ PeerClose
  \/ StartProcessRead
  \/ ReadPacketReadBuf

SpecConn == InitConn /\ [][NextConn]_vars

\* How many bytes the buffer has left when the late connection starts.
MaxLateBuffer == 6

\* What the peer of the late connection writes.
LatePeerFrames == {S1StatusRequest, S1PingRequest}

\* A connection late in its life.  Every frame handled takes full_len bytes
\* off the buffer for good (parse_packet, self.buffer.advance(full_len)), and
\* stream.read never makes it longer: after the handshake S1Handshake767 and
\* (BufferSize - 2 - n) / 2 status requests 01 00, each taking 2 bytes, the
\* buffer is n never-written zero bytes (the 15 bytes the handshake left are
\* gone after 8 of the requests), the phase is Status and the status guard is
\* off.  The histories start here.
InitConnLate ==
  /\ NbtIdle
  /\ handler \in {"process_packet", "default_packet_handler"}
  /\ buffer \in {[head |-> <<>>, zeros |-> n, tail |-> <<>>] :
                   n \in {m \in 4..MaxLateBuffer : m % 2 = 0}}
  /\ state = Status
  /\ can_request_status = FALSE
  /\ client_information = None
  /\ task = "read"
  /\ wire = <<>>
  /\ peer_closed = FALSE
  /\ out = <<>>
  /\ peer_frames = <<>>
  /\ seen_frames = <<>>
  /\ aligned = TRUE
  /\ ChainIdle
  /\ CodecIdle

NextConnLate ==
  \/ \E frame \in LatePeerFrames : PeerSend(frame)
  \/ PeerClose
  \/ StartProcessRead
  \/ ReadPacketReadBuf

SpecConnLate == InitConnLate /\ [][NextConnLate]_vars

----------------------------------------------------------------------------
(* Claims about the tape and the lookups *)

\* Whether entry i of tape tp is linked to a matching End after it.
Linked(tp, i) ==
  LET j == tp[i + 1].data
  IN  /\ i < j
      /\ j < Len(tp)
      /\ tp[j + 1].tag = TagEnd
      /\ tp[j + 1].data = i

\* C1: in every tape a successful Tape::parse returns, the payload word of
\* each Compound or List entry i is an index j with i < j < length, entry j is
\* an End, and the payload word of entry j is i.
C1_TapeLinks ==
  result = "Ok" =>
    \A i \in 0..(Len(tape) - 1) :
      tape[i + 1].tag \in {TagCompound, TagList} => Linked(tape, i)

\* C2: root.int(name) returns the first child of that name in declaration
\* order, so that {"k" -> Int(1), "k" -> Int(2)} read at "k" gives 1.
C2_FirstWins ==
  looked.status = "ok" =>
    LET first == NbtCompound_get_scan(source, tape, 0, looked.name).node
    IN  looked.value = IF first # None /\ first[1].value.tag = TagInt
                       THEN Some(first[1].value.value) ELSE None

----------------------------------------------------------------------------
(* Claims about the connection *)

Last(s) == s[Len(s)]

\* This step found a frame in the buffer.
FrameFound == seen_frames' # seen_frames

\* This step handed a packet of this name to the handler.
Handled(name) == FrameFound /\ Last(seen_frames').packet.name = name

StatusResponsesSent == Cardinality({i \in 1..Len(out) : out[i].name = "StatusResponsePacket"})

StatusRequestsHandled ==
  Cardinality({i \in 1..Len(seen_frames) : seen_frames[i].packet.name = "StatusRequestPacket"})

\* C3: whatever the peer sends, the server sends at most one status response
\* frame on the connection; a status request handled after one was served
\* sends nothing.
C3_AtMostOneStatusResponse ==
  /\ StatusResponsesSent <= 1
  /\ StatusResponsesSent = 1 => ~can_request_status

\* Two status requests have been handled and one response was sent.
C3_Witness == StatusRequestsHandled >= 2 /\ StatusResponsesSent = 1

C5_OnlyStatusOrLogin ==
  [][ (Handled("HandshakePacket") /\ Last(seen_frames').outcome = "Ok")
      => state' \in {Status, Login} ]_vars

\* The server has read everything the peer has written.
AllRead == wire = <<>>

S1Replies == <<StatusResponseFrame, PongResponseFrame(Payload2A)>>

CorePack == [namespace |-> StrMinecraft, value |-> StrCore, version |-> Str1_21]

\* C7: handling login_start(name, uuid) sends login_success with that uuid and
\* name, no properties and strict_error_handling = true, and stays in Login;
\* handling login_acknowledged moves to Configuration and sends one
\* known_packs frame holding the one pack {minecraft, core, 1.21}.
C7_LoginScenario ==
  [][ /\ Handled("LoginStartPacket")
         => /\ out' = Append(out, [ id |-> 2, name |-> "LoginSuccessPacket",
                                    player_uuid |-> Last(seen_frames').packet.player_uuid,
                                    player_username |-> Last(seen_frames').packet.player_username,
                                    properties |-> <<>>,
                                    strict_error_handling |-> TRUE ])
            /\ state' = Login
      /\ Handled("LoginAcknowledgedPacket")
         => /\ state' = Configuration
            /\ out' = Append(out, [ id |-> 14, name |-> "ClientboundKnownPacksPacket",
                                    known_packs |-> <<CorePack>> ]) ]_vars

\* C8: in Configuration, the acknowledge_finish frame (id 0x03 in protocol
\* 767, no payload) moves the connection to Play.
C8_AcknowledgeFinish ==
  [][ (FrameFound /\ state = Configuration /\ Last(seen_frames').packet_id = 3)
      => state' = Play ]_vars

\* The ids of the packets the transition table lists for a phase: handshake;
\* status_request, ping_request; login_start, login_acknowledged;
\* client_information, plugin_message, acknowledge_finish; none in Play.
ListedIds(phase) ==
  CASE phase = Handshaking   -> {0}
    [] phase = Status        -> {0, 1}
    [] phase = Login         -> {0, 3}
    [] phase = Configuration -> {0, 2, 3}
    [] phase = Play          -> {}

\* C9: a frame whose id the table does not list for the current phase is
\* rejected with InvalidPacketId; phase, guard and stored preferences keep
\* their values, nothing is sent, and the task does not abort.
C9_UnlistedRejected ==
  [][ (FrameFound /\ Last(seen_frames').packet_id \notin ListedIds(state))
      => /\ Last(seen_frames').outcome = "InvalidPacketId"
         /\ state' = state
         /\ can_request_status' = can_request_status
         /\ client_information' = client_information
         /\ out' = out
         /\ task' # "panic" ]_vars

\* The length and id a frame of the peer announces.
SentHeader(frame) ==
  LET chk == check_packet(frame, Len(frame))
  IN  <<chk.len, chk.packet_id>>

IsPrefix(s, t) == Len(s) <= Len(t) /\ \A i \in 1..Len(s) : s[i] = t[i]

\* C10: the frames found and handled are the peer's complete frames, each
\* once and in the order sent, however reads split or join them; when all
\* has been read and the task waits for more, none is missing.
C10_EachFrameOnceInOrder ==
  (\A i \in 1..Len(peer_frames) : peer_frames[i] # LongFrameHeader)
    => /\ IsPrefix([i \in 1..Len(seen_frames) |->
                      <<seen_frames[i].len, seen_frames[i].packet_id>>],
                   [i \in 1..Len(peer_frames) |-> SentHeader(peer_frames[i])])
       /\ (AllRead /\ task = "read") => Len(seen_frames) = Len(peer_frames)

\* C11: when parse_packet finds the frame [length][packet_id][payload] at the
\* front of the buffer and returns its packet, the decoder was handed length
\* minus the size of the id bytes, and the buffer has lost the size of the
\* length prefix plus length bytes.  Stated for frames that each arrive whole
\* in a read of their own.
C11_FrameConsumed ==
  [][ (FrameFound /\ aligned' /\ Last(seen_frames').packet.name # "none")
      => /\ Last(seen_frames').handed
              = Last(seen_frames').len - Len(put_varint(Last(seen_frames').packet_id))
         /\ BufLen(buffer')
              = BufLen(buffer)
                + (IF task = "read_buf" THEN Len(wire) - Len(wire') ELSE 0)
                - (Len(put_varint(Last(seen_frames').len)) + Last(seen_frames').len) ]_vars

----------------------------------------------------------------------------
(* server/src/packet_handler.rs: PacketHandlerManager and its handle.  A    *)
(* handler is a closure returning Result<(), PacketHandleError>; it is     *)
(* kept as [id, ret]: the order in which it was pushed and what it returns.*)

MaxHandlers == 3

\* Ok(()), Err(PacketHandleError::Cancelled), and Err(PacketHandleError::User(_))
\* standing for the other error variants.
HandlerOutcomes == {"Ok", "Cancelled", "User"}

\* The k-th handler in the other order, first pushed first.
iter_mut_forward(handlers, k) == handlers[k]

\* self.packet_handlers.iter_mut().rev(): the k-th handler the loop takes.
iter_mut_rev(handlers, k) == handlers[Len(handlers) + 1 - k]

\* A lock that is granted whether held or not.
Mutex_lock_unguarded(holder) == TRUE

\* self.manager.lock().await completes only while no guard is alive.
Mutex_lock(holder) == holder = 0

\* PacketHandlerManager::push_handler, on a manager not yet shared.
push_handler(ret) ==
  /\ ~chain_shared
  /\ Len(packet_handlers) < MaxHandlers
  /\ packet_handlers' = Append(packet_handlers, [id |-> Len(packet_handlers) + 1, ret |-> ret])
  /\ UNCHANGED <<notChainVars, chain_shared, manager_lock, call_pc, call_idx,
                 call_invoked, call_result>>

\* PacketHandlerManagerHandle::new(Arc<Mutex<PacketHandlerManager>>): from
\* here on the tasks reach the manager through the lock only.
PacketHandlerManagerHandle_new ==
  /\ ~chain_shared
  /\ chain_shared' = TRUE
  /\ UNCHANGED <<notChainVars, packet_handlers, manager_lock, call_pc, call_idx,
                 call_invoked, call_result>>

\* PacketHandlerManagerHandle::handle_packet is called by task t and reaches
\* self.manager.lock().await.
HandleCall(t) ==
  /\ chain_shared
  /\ call_pc[t] = "idle"
  /\ call_pc' = [call_pc EXCEPT ![t] = "lock"]
  /\ call_idx' = [call_idx EXCEPT ![t] = 0]
  /\ call_invoked' = [call_invoked EXCEPT ![t] = <<>>]
  /\ call_result' = [call_result EXCEPT ![t] = "none"]
  /\ UNCHANGED <<notChainVars, packet_handlers, chain_shared, manager_lock>>

\* The lock is granted to task t, which enters PacketHandlerManager::handle_packet.
LockAcquire(t) ==
  /\ call_pc[t] = "lock"
  /\ Mutex_lock(manager_lock)
  /\ manager_lock' = t
  /\ call_pc' = [call_pc EXCEPT ![t] = "chain"]
  /\ UNCHANGED <<notChainVars, packet_handlers, chain_shared, call_idx, call_invoked,
                 call_result>>

\* The loop of handle_packet takes the next handler and calls it.
HandlerInvoke(t) ==
  /\ call_pc[t] = "chain"
  /\ call_idx[t] < Len(packet_handlers)
  /\ call_idx' = [call_idx EXCEPT ![t] = @ + 1]
  /\ call_invoked' = [call_invoked EXCEPT
                        ![t] = Append(@, iter_mut_rev(packet_handlers, call_idx[t] + 1).id)]
  /\ call_pc' = [call_pc EXCEPT ![t] = "handler"]
  /\ UNCHANGED <<notChainVars, packet_handlers, chain_shared, manager_lock, call_result>>

\* Both handle_packet functions return r to task t; the MutexGuard is a local
\* of the outer one and is dropped with it.
ChainReturn(t, r) ==
  /\ call_result' = [call_result EXCEPT ![t] = r]
  /\ call_pc' = [call_pc EXCEPT ![t] = "idle"]
  /\ manager_lock' = 0
  /\ UNCHANGED <<notChainVars, packet_handlers, chain_shared, call_idx, call_invoked>>

\* The handler called last returns: Ok(_) goes on with the loop, an Err is
\* returned as it is.
HandlerReturn(t) ==
  /\ call_pc[t] = "handler"
  /\ IF iter_mut_rev(packet_handlers, call_idx[t]).ret = "Ok"
     THEN /\ call_pc' = [call_pc EXCEPT ![t] = "chain"]
          /\ UNCHANGED <<notChainVars, packet_handlers, chain_shared, manager_lock,
                         call_idx, call_invoked, call_result>>
     ELSE ChainReturn(t, iter_mut_rev(packet_handlers, call_idx[t]).ret)

\* The loop has taken every handler: Ok(()).
ChainEnd(t) ==
  /\ call_pc[t] = "chain"
  /\ call_idx[t] = Len(packet_handlers)
  /\ ChainReturn(t, "Ok")

InitChain ==
  /\ NbtIdle
  /\ ConnIdle
  /\ CodecIdle
  /\ ChainIdle

NextChain ==
  \/ \E ret \in HandlerOutcomes : push_handler(ret)
  \/ PacketHandlerManagerHandle_new
  \/ \E t \in Tasks : HandleCall(t)
  \/ \E t \in Tasks : LockAcquire(t)
  \/ \E t \in Tasks : HandlerInvoke(t)
  \/ \E t \in Tasks : HandlerReturn(t)
  \/ \E t \in Tasks : ChainEnd(t)

SpecChain == InitChain /\ [][NextChain]_vars

\* default_packet_handler reaches connection.send_packet(..).await: the
\* handler task t called is suspended in stream.write_all, inside
\* PacketHandlerManager::handle_packet and so with the MutexGuard of the outer
\* handle_packet alive.
HandlerSend(t) ==
  /\ call_pc[t] = "handler"
  /\ call_pc' = [call_pc EXCEPT ![t] = "write"]
  /\ UNCHANGED <<notChainVars, packet_handlers, chain_shared, manager_lock, call_idx,
                 call_invoked, call_result>>

\* The transport takes the bytes and the write completes; when, and whether,
\* is the peer's doing.
WriteComplete(t) ==
  /\ call_pc[t] = "write"
  /\ call_pc' = [call_pc EXCEPT ![t] = "handler"]
  /\ UNCHANGED <<notChainVars, packet_handlers, chain_shared, manager_lock, call_idx,
                 call_invoked, call_result>>

NextChainWrite ==
  \/ \E ret \in HandlerOutcomes : push_handler(ret)
  \/ PacketHandlerManagerHandle_new
  \/ \E t \in Tasks : HandleCall(t)
  \/ \E t \in Tasks : LockAcquire(t)
  \/ \E t \in Tasks : HandlerInvoke(t)
  \/ \E t \in Tasks : HandlerSend(t)
  \/ \E t \in Tasks : WriteComplete(t)
  \/ \E t \in Tasks : HandlerReturn(t)
  \/ \E t \in Tasks : ChainEnd(t)

\* The runtime polls every task that can make progress and the tokio Mutex
\* hands the lock to its waiters in turn; nothing makes a peer read, so a
\* write has no fairness.
ChainFairness ==
  \A t \in Tasks :
    /\ SF_vars(LockAcquire(t))
    /\ WF_vars(HandlerInvoke(t))
    /\ SF_vars(HandlerReturn(t))
    /\ WF_vars(ChainEnd(t))

SpecChainWrite == InitChain /\ [][NextChainWrite]_vars /\ ChainFairness

\* The same with a peer that always reads in the end.
SpecChainDrained ==
  SpecChainWrite /\ \A t \in Tasks : SF_vars(WriteComplete(t))

\* The handler the k-th invocation of task t's call went to has returned.
HasReturned(t, k) == k < Len(call_invoked[t]) \/ call_pc[t] # "handler"

\* The task's call of handle_packet is over.
CallDone(t) == call_pc[t] = "idle" /\ call_result[t] # "none"

\* C12: handlers pushed later are invoked first: the k-th invocation of a call
\* goes to the k-th handler counted from the one pushed last; a handler that
\* returns Cancelled or an error is the last one invoked and its outcome is
\* what handle_packet returns; after a handler that continues, the one pushed
\* just before it is invoked, and when none is left handle_packet returns Ok.
C12_ReverseOrder ==
  \A t \in Tasks :
    /\ Len(call_invoked[t]) <= Len(packet_handlers)
    /\ \A k \in 1..Len(call_invoked[t]) :
         /\ call_invoked[t][k] = Len(packet_handlers) + 1 - k
         /\ (HasReturned(t, k) /\ packet_handlers[call_invoked[t][k]].ret # "Ok")
              => /\ k = Len(call_invoked[t])
                 /\ CallDone(t)
                 /\ call_result[t] = packet_handlers[call_invoked[t][k]].ret
         /\ (CallDone(t) /\ packet_handlers[call_invoked[t][k]].ret = "Ok")
              => \/ k < Len(call_invoked[t])
                 \/ (k = Len(packet_handlers) /\ call_result[t] = "Ok")

\* Three handlers, the last pushed continues and the second is cancelled: the
\* call invoked the third, then the second, never the first.
C12_Witness ==
  \E t \in Tasks :
    /\ Len(packet_handlers) = 3
    /\ packet_handlers[3].ret = "Ok"
    /\ packet_handlers[2].ret = "Cancelled"
    /\ CallDone(t)
    /\ call_invoked[t] = <<3, 2>>
    /\ call_result[t] = "Cancelled"

\* C13: a handler can end the chain with success: once a handler has returned
\* a success, no handler pushed before it is invoked for that packet and
\* handle_packet returns Ok.
C13_SuccessEndsChain ==
  \A t \in Tasks :
    \A k \in 1..Len(call_invoked[t]) :
      (HasReturned(t, k) /\ packet_handlers[call_invoked[t][k]].ret = "Ok")
        => /\ k = Len(call_invoked[t])
           /\ CallDone(t) => call_result[t] = "Ok"

\* The tasks that are inside PacketHandlerManager::handle_packet.
InChain == {t \in Tasks : call_pc[t] \in {"chain", "handler"}}

\* C14: at most one task is inside the chain at any time, and the lock is held
\* by no task whose call of handle_packet has returned or has not got the lock
\* yet, so the lock is free whenever no task is inside the chain.
C14_OneAtATime ==
  /\ Cardinality(InChain) <= 1
  /\ \A t \in Tasks : manager_lock = t => t \in InChain
  /\ manager_lock \in Tasks \cup {0}

\* One task's call has returned an error and the other task has got the lock
\* after it and is inside a handler.
C14_Witness ==
  /\ call_pc[1] = "idle"
  /\ call_result[1] = "Cancelled"
  /\ manager_lock = 2
  /\ call_pc[2] = "handler"

----------------------------------------------------------------------------
(* protocol/src/buf.rs and packet/src/lib.rs as functions of their input.   *)
(* `codec` holds one input, the function applied to it and what it gave.   *)

MaxVarintBytes == 5

I32Min == (-2147483647) - 1

I32Max == (Pow2(30) - 1) + Pow2(30)

\* Bytes with and without the continuation bit.
VarintBytes == {0, 1, 127, 128, 129, 255}

VarintSeqs == SeqsUpTo({<<b>> : b \in VarintBytes}, MaxVarintBytes)

\* The budgets the code passes are 3 (frame length) and 4 (get_varint).
Budgets == 1..4

BytesInputs == {[kind |-> "bytes", bs |-> bs, budget |-> n] : bs \in VarintSeqs, n \in Budgets}

\* A buffer that starts with a length prefix and a packet id, of `total` bytes.
FrameInputs ==
  {[kind |-> "frame", bs |-> p \o i, total |-> Len(p \o i) + more] :
     p \in {q \in VarintSeqs : Len(q) <= 4}, i \in {<<>>, <<0>>, <<128, 1>>},
     more \in {0, 1, 65535, Pow2(28)}}

I32Inputs ==
  {[kind |-> "i32", v |-> v] :
     v \in (-300..300) \cup {25565, 2097151, 2097152, Pow2(28) - 1, Pow2(28), I32Max - 1, I32Max,
                             I32Min, I32Min + 1, -Pow2(28), -2097152, -25565}}

\* The function `op` is applied to the input, once.
CodecApply(op, output) ==
  /\ codec.op = "none"
  /\ codec' = [codec EXCEPT !.op = op, !.output = output]
  /\ UNCHANGED notCodecVars

GetVarintWithAtMost ==
  /\ codec.input.kind = "bytes"
  /\ CodecApply("get_varint_with_at_most",
                get_varint_with_at_most(codec.input.bs, codec.input.budget))

TryGetVarintWithAtMost ==
  /\ codec.input.kind = "bytes"
  /\ CodecApply("try_get_varint_with_at_most",
                try_get_varint_with_at_most(codec.input.bs, codec.input.budget))

GetVarint ==
  /\ codec.input.kind = "bytes"
  /\ CodecApply("get_varint", get_varint(codec.input.bs))

CheckPacket ==
  /\ codec.input.kind = "frame"
  /\ CodecApply("check_packet", check_packet(codec.input.bs, codec.input.total))

\* tests::varint: put_varint, then get_varint on the bytes written.
PutGetVarint ==
  /\ codec.input.kind = "i32"
  /\ CodecApply("put_get_varint",
                [bytes |-> put_varint(codec.input.v),
                 back  |-> get_varint(put_varint(codec.input.v))])

\* put_bool
put_bool(boolean) == IF boolean THEN <<1>> ELSE <<0>>

\* Encodable for Identifier: SingleString is put_identifier, which writes
\* namespace():value() as one string; DoubleString writes two strings.
Identifier_encode(id, ctx) ==
  IF ctx = "SingleString"
  THEN put_string(Identifier_namespace(id) \o Colon \o id.value)
  ELSE put_string(Identifier_namespace(id)) \o put_string(id.value)

\* Decodable for Identifier: get_identifier whatever the context is.
Identifier_decode(bs, ctx) == get_identifier(bs)

\* PartialEq for Identifier
Identifier_eq(a, b) ==
  Identifier_namespace(a) = Identifier_namespace(b) /\ a.value = b.value

\* KnownPack, by the Protocol derive: identifier with DoubleString, version.
KnownPack_encode(pack) ==
  Identifier_encode(pack.identifier, "DoubleString") \o put_string(pack.version)

\* The struct is built once both fields are read.
KnownPack_new(identifier, version) ==
  IF identifier.st # "ok" THEN identifier
  ELSE IF version.st # "ok" THEN version
  ELSE Rd("ok", [identifier |-> identifier.v, version |-> version.v], version.rest)

KnownPack_decode(bs) ==
  KnownPack_new(Identifier_decode(bs, "DoubleString"),
                get_string(Identifier_decode(bs, "DoubleString").rest))

RECURSIVE KnownPacks_encode(_)
\* Cow<[KnownPack]>::encode after the length: every item in turn.
KnownPacks_encode(packs) ==
  IF packs = <<>> THEN <<>>
  ELSE KnownPack_encode(Head(packs)) \o KnownPacks_encode(Tail(packs))

RECURSIVE KnownPacks_decode(_, _, _)
RECURSIVE KnownPacks_push(_, _, _)
\* vec.push(<T as Decodable>::decode(buf, ())?)
KnownPacks_push(item, len, vec) ==
  IF item.st # "ok" THEN item
  ELSE KnownPacks_decode(item.rest, len - 1, Append(vec, item.v))

\* Cow<[KnownPack]>::decode after the length: `len` items pushed on vec.
KnownPacks_decode(bs, len, vec) ==
  IF len = 0 THEN Rd("ok", vec, bs)
  ELSE KnownPacks_push(KnownPack_decode(bs), len, vec)

\* ClientboundKnownPacksPacket: known_packs with LengthPrefixed.
ClientboundKnownPacksPacket_encode(packet) ==
  put_varint(Len(packet.known_packs)) \o KnownPacks_encode(packet.known_packs)

ClientboundKnownPacksPacket_new(known_packs) ==
  IF known_packs.st # "ok" THEN Dec(known_packs.st, NoPacket)
  ELSE Dec("ok", [name |-> "ClientboundKnownPacksPacket", known_packs |-> known_packs.v])

\* get_varint(buf)?.try_into().unwrap(), then the items.
ClientboundKnownPacksPacket_len(len) ==
  IF len.st # "ok" THEN Dec(len.st, NoPacket)
  ELSE IF len.v < 0 THEN Dec("panic", NoPacket)
  ELSE ClientboundKnownPacksPacket_new(KnownPacks_decode(len.rest, len.v, <<>>))

ClientboundKnownPacksPacket_decode(bs) == ClientboundKnownPacksPacket_len(get_varint(bs))

\* ServerPacket::encode: the fields of the packet in order, by the Protocol
\* derive.  Fixed-width values are kept as their bytes.
ServerPacket_encode(packet) ==
  CASE packet.name = "HandshakePacket" ->
         put_varint(packet.protocol_version) \o put_string(packet.server_address)
           \o packet.server_port \o put_varint(packet.next_state)
    [] packet.name = "StatusRequestPacket" -> <<>>
    [] packet.name = "PingRequestPacket" -> packet.payload
    [] packet.name = "LoginStartPacket" ->
         put_string(packet.player_username) \o packet.player_uuid
    [] packet.name = "EncryptionResponsePacket" ->
         put_varint(Len(packet.shared_secret)) \o packet.shared_secret
           \o put_varint(Len(packet.verify_token)) \o packet.verify_token
    [] packet.name = "LoginPluginResponsePacket" ->
         put_varint(packet.message_id) \o put_bool(packet.successful) \o packet.data
    [] packet.name = "LoginAcknowledgedPacket" -> <<>>
    [] packet.name = "ClientInformationPacket" ->
         put_string(packet.locale) \o packet.view_distance \o put_varint(packet.chat_mode)
           \o put_bool(packet.chat_colors) \o packet.displayed_skin_parts
           \o put_varint(packet.main_hand) \o put_bool(packet.enable_text_filtering)
           \o put_bool(packet.allow_server_listings)
    [] packet.name = "None1" -> <<>>

\* AnyPacket::encode
AnyPacket_encode(direction, packet) ==
  IF direction = "Server" THEN ServerPacket_encode(packet)
  ELSE ClientboundKnownPacksPacket_encode(packet)

\* AnyPacket::decode.  Of the clientbound catalogue the model holds
\* ClientboundKnownPacksPacket, id 0x0E of Configuration.
AnyPacket_decode(bs, direction, connection_state, packet_id) ==
  IF direction = "Server" THEN ServerPacket_decode(bs, connection_state, packet_id)
  ELSE IF connection_state = Configuration /\ packet_id = 14
       THEN ClientboundKnownPacksPacket_decode(bs)
       ELSE Dec("InvalidPacketId", NoPacket)

\* PartialEq for the packets, derived: field by field.
Packet_eq(a, b) ==
  /\ a.name = b.name
  /\ IF a.name = "ClientboundKnownPacksPacket"
     THEN /\ Len(a.known_packs) = Len(b.known_packs)
          /\ \A k \in 1..Len(a.known_packs) :
               /\ Identifier_eq(a.known_packs[k].identifier, b.known_packs[k].identifier)
               /\ a.known_packs[k].version = b.known_packs[k].version
     ELSE a = b

MaxKnownPacks == 2

KnownPackInputs ==
  {[identifier |-> id, version |-> version] :
     id \in {[namespace |-> None, value |-> StrCore],
             [namespace |-> Some(StrMinecraft), value |-> StrCore],
             [namespace |-> Some(NameA), value |-> NameA]},
     version \in {Str1_21, <<>>}}

PacketInput(direction, connection_state, packet_id, packet) ==
  [ kind |-> "packet", direction |-> direction, connection_state |-> connection_state,
    packet_id |-> packet_id, packet |-> packet ]

ServerPacketInputs ==
  {PacketInput("Server", Handshaking, 0,
               [ name |-> "HandshakePacket", protocol_version |-> v, server_address |-> a,
                 server_port |-> Port25565, next_state |-> n ]) :
     v \in {TARGET_PROTOCOL_VERSION, 0, -1}, a \in {<<>>, StrLocalhost}, n \in 0..ConnectionStateLast}
  \cup {PacketInput("Server", Status, 0, [name |-> "StatusRequestPacket"])}
  \cup {PacketInput("Server", Status, 1, [name |-> "PingRequestPacket", payload |-> Payload2A])}
  \cup {PacketInput("Server", Login, 0,
                    [name |-> "LoginStartPacket", player_username |-> u, player_uuid |-> UuidU]) :
          u \in {<<>>, NameA, StrLocalhost}}
  \cup {PacketInput("Server", Login, 1,
                    [name |-> "EncryptionResponsePacket", shared_secret |-> x, verify_token |-> y]) :
          x \in {<<>>, <<0>>, <<1, 255>>}, y \in {<<>>, <<0>>, <<1, 255>>}}
  \cup {PacketInput("Server", Login, 2,
                    [ name |-> "LoginPluginResponsePacket", message_id |-> i, successful |-> ok,
                      data |-> x ]) :
          i \in {0, 128, -1}, ok \in BOOLEAN, x \in {<<>>, <<0>>, <<1, 255>>}}
  \cup {PacketInput("Server", Login, 3, [name |-> "LoginAcknowledgedPacket"])}
  \cup {PacketInput("Server", Configuration, 0,
                    [ name |-> "ClientInformationPacket", locale |-> l, view_distance |-> <<8>>,
                      chat_mode |-> m, chat_colors |-> c, displayed_skin_parts |-> <<127>>,
                      main_hand |-> h, enable_text_filtering |-> FALSE,
                      allow_server_listings |-> TRUE ]) :
          l \in {<<>>, <<101, 110>>}, m \in 0..ChatModeLast, c \in BOOLEAN, h \in 0..HandLast}
  \cup {PacketInput("Server", Play, 0, [name |-> "None1"])}

ClientPacketInputs ==
  {PacketInput("Client", Configuration, 14,
               [name |-> "ClientboundKnownPacksPacket", known_packs |-> packs]) :
     packs \in SeqsUpTo({<<pack>> : pack \in KnownPackInputs}, MaxKnownPacks)}

PacketInputs == ServerPacketInputs \cup ClientPacketInputs

\* A packet is encoded and the bytes are decoded with its direction, phase
\* and id.
PacketRoundTrip ==
  /\ codec.input.kind = "packet"
  /\ CodecApply("packet_round_trip",
                AnyPacket_decode(AnyPacket_encode(codec.input.direction, codec.input.packet),
                                 codec.input.direction, codec.input.connection_state,
                                 codec.input.packet_id))

MaxIdentLen == 4

\* A letter, a dot, the colon, the slash and a character no identifier has.
IdentBytes == {97, 46, 58, 47, 65}

\* Strings for Identifier::from_string: a few characters, then `pad` letters.
IdentInputs ==
  {[kind |-> "ident", bs |-> bs, pad |-> pad] :
     bs \in SeqsUpTo({<<b>> : b \in IdentBytes}, MaxIdentLen),
     pad \in {0, IDENTIFIER_MAX_LEN - 2, IDENTIFIER_MAX_LEN}}

\* Identifier::from_string(string)
FromString ==
  /\ codec.input.kind = "ident"
  /\ CodecApply("from_string",
                Identifier_from_string_padded(codec.input.bs, codec.input.pad))

\* A struct that is serialized.
ValueInputs == {[kind |-> "value", value |-> v] : v \in SerStructs}

\* to_bytes(&value)
ToBytes ==
  /\ codec.input.kind = "value"
  /\ CodecApply("to_bytes", Serializer_to_bytes(codec.input.value))

CodecInputs ==
  BytesInputs \cup FrameInputs \cup I32Inputs \cup PacketInputs \cup IdentInputs \cup ValueInputs

InitCodec ==
  /\ NbtIdle
  /\ ConnIdle
  /\ ChainIdle
  /\ codec \in {[op |-> "none", input |-> i, output |-> <<>>] : i \in CodecInputs}

NextCodec ==
  \/ GetVarintWithAtMost
  \/ TryGetVarintWithAtMost
  \/ GetVarint
  \/ CheckPacket
  \/ PutGetVarint
  \/ PacketRoundTrip
  \/ FromString
  \/ ToBytes

SpecCodec == InitCodec /\ [][NextCodec]_vars

\* The bytes a read has taken from its input.
CodecConsumed == Len(codec.input.bs) - Len(codec.output.rest)

\* No byte among the first n of bs ends a varint, and there are n of them.
Unterminated(bs, n) == Len(bs) >= n /\ \A k \in 1..n : bs[k] >= 128

\* C15: a varint read with budget N takes at most N bytes and fails with TooBig
\* when none of the first N bytes ends the value; get_varint does so with
\* N = 5; the frame length is read with N = 3, so a frame that check_packet
\* accepts has a length of at most 2^21 - 1 written in at most 3 bytes.
C15_VarintBudget ==
  /\ codec.op \in {"get_varint_with_at_most", "try_get_varint_with_at_most"}
       => /\ CodecConsumed <= codec.input.budget
          /\ Unterminated(codec.input.bs, codec.input.budget)
               => codec.output.st = "VarIntTooBig"
  /\ codec.op = "get_varint"
       => /\ CodecConsumed <= 5
          /\ Unterminated(codec.input.bs, 5) => codec.output.st = "VarIntTooBig"
  /\ (codec.op = "check_packet" /\ codec.output.st = "ok")
       => /\ codec.output.len <= Pow2(21) - 1
          /\ ~Unterminated(codec.input.bs, 3)

\* C16: put_varint then get_varint gives the value back and leaves no byte,
\* and put_varint writes the canonical bytes of the listed values.
C16_VarintRoundTrip ==
  codec.op = "put_get_varint"
    => /\ codec.output.back = Rd("ok", codec.input.v, <<>>)
       /\ codec.input.v = 0 => codec.output.bytes = <<0>>
       /\ codec.input.v = 127 => codec.output.bytes = <<127>>
       /\ codec.input.v = 128 => codec.output.bytes = <<128, 1>>
       /\ codec.input.v = 25565 => codec.output.bytes = <<221, 199, 1>>
       /\ codec.input.v = 2097151 => codec.output.bytes = <<255, 255, 127>>
       /\ codec.input.v = I32Max => codec.output.bytes = <<255, 255, 255, 255, 7>>
       /\ codec.input.v = -1 => codec.output.bytes = <<255, 255, 255, 255, 15>>
       /\ codec.input.v = I32Min => codec.output.bytes = <<128, 128, 128, 128, 8>>

\* The smallest i32 has gone through put_varint and get_varint.
C16_Witness ==
  /\ codec.op = "put_get_varint"
  /\ codec.input.v = I32Min
  /\ codec.output.bytes = <<128, 128, 128, 128, 8>>
  /\ codec.output.back.v = I32Min

\* C17: a packet of the catalogue that is encoded and decoded again with its
\* direction, phase and id comes back as an equal packet.
C17_FrameSymmetry ==
  codec.op = "packet_round_trip"
    => /\ codec.output.st = "ok"
       /\ Packet_eq(codec.output.packet, codec.input.packet)

\* C18: parsing a non-empty input whose first byte is not 0x0A ends with
\* WrongStartingTag under either framing, never with another error, with
\* success or with an abort.
C18_WrongStartingTag ==
  (source # <<>> /\ source[1] # TagCompound /\ result # "running")
    => result = "WrongStartingTag"

\* C19: Tape::parse ends with a tape or with one of its typed errors and never
\* aborts; an input that stops inside an item ends with SuddenEnd.
C19_TypedOutcome ==
  result \in {"running", "Ok", "WrongStartingTag", "InvalidTag", "InvalidListType",
              "UnexpectedEnd", "SuddenEnd"}

\* C20: a tape that Tape::parse returns is not empty and its entry 0 is a
\* Compound.
C20_RootCompound ==
  result = "Ok" => (tape # <<>> /\ tape[1].tag = TagCompound)

\* C21: on a tape that Tape::parse returns, the successor of every entry that
\* is not an End (the next index for a scalar, an array or a string; one more
\* than the payload word for a Compound or a List) is larger than the entry's
\* own index and is an index of the tape.
C21_SuccessorAdvances ==
  result = "Ok"
    => \A p \in 0..(Len(tape) - 1) :
         tape[p + 1].tag # TagEnd
           => /\ NextTapePos(tape, p) > p
              /\ NextTapePos(tape, p) < Len(tape)

\* C22: an iterator over a Compound or a List of a returned tape comes to an
\* End entry and finishes after finitely many calls of next(), without an
\* abort; once next() has returned None, every later call returns None.
C22_IterationEnds ==
  /\ (iter.kind # "none") ~> iter.finished
  /\ [](iter.status = "ok")
  /\ [][iter.finished => (iter'.finished /\ iter'.last = None)]_vars

\* The declared length and the element tag of the list at tape position p, as
\* the source has them: the tag byte and the i32 at the start of its payload.
DeclaredLen(src, tp, p) == I32(Bytes(src, get_source_payload_pos(tp[p + 1]) + 1, 4))

DeclaredTag(src, tp, p) == src[get_source_payload_pos(tp[p + 1]) + 1]

\* C23: a List entry with declared length n, nested or not, n positive or
\* not, holds exactly max(n, 0) elements, each with the list's element tag:
\* NbtList::parse returns that many entries, all carrying the element tag and
\* all lying after the list entry and, when the list has an End, before it.
C23_ListHoldsItsElements ==
  access.op = "NbtList_parse"
    => /\ access.status = "ok"
       /\ Len(access.value) =
            (IF DeclaredLen(source, tape, access.tape_pos) > 0
             THEN DeclaredLen(source, tape, access.tape_pos) ELSE 0)
       /\ \A i \in 1..Len(access.value) :
            /\ access.value[i].value.tag = DeclaredTag(source, tape, access.tape_pos)
            /\ access.value[i].tape_pos > access.tape_pos
            /\ access.value[i].tape_pos < tape[access.tape_pos + 1].data

\* The innermost open scope around the entry at tape position p of a returned
\* tape: the last Compound, or List with a frame, before p whose End lies
\* after p.
ScopesAround(tp, p) ==
  {q \in 0..(p - 1) : tp[q + 1].tag \in {TagCompound, TagList} /\ tp[q + 1].data > p}

InListScope(tp, p) ==
  /\ ScopesAround(tp, p) # {}
  /\ tp[(CHOOSE q \in ScopesAround(tp, p) : \A r \in ScopesAround(tp, p) : r <= q) + 1].tag
       = TagList

\* Where the source holds the body of the array or string at tape position p:
\* behind the tag, the name length and the name (a list element has none of
\* them) and behind the length prefix.
BodyPos(tp, p) ==
  tp[p + 1].source_pos
    + (IF InListScope(tp, p) THEN 0 ELSE 3 + tp[p + 1].name_len)
    + LenSize(tp[p + 1].tag)

\* C24: get(i) on a ByteArray, IntArray or LongArray of n elements returns,
\* for i < n, the element at index i, read big-endian from the 1, 4 or 8
\* source bytes of that element, and nothing for i >= n.
C24_ArrayGet ==
  access.op = "Array_get"
    => /\ access.status = "ok"
       /\ access.value =
            IF access.index < tape[access.tape_pos + 1].data
            THEN Some(FromBeBytes(Bytes(source,
                        BodyPos(tape, access.tape_pos)
                          + access.index * ElemSize(tape[access.tape_pos + 1].tag),
                        ElemSize(tape[access.tape_pos + 1].tag))))
            ELSE None

\* The elements of the serialized sequence as the array accessor would hand
\* them out.
OriginElements == [i \in 1..Len(origin.values) |->
                     FromBeBytes(ToBeBytes(origin.values[i], ScalarSize(origin.elem)))]

\* C25: a sequence of i8, i32 or i64 that to_bytes has written as the field
\* "v" of a struct is parsed by Tape::parse, and the array accessor of the
\* field returns the same elements in the same order.
C25_ArrayRoundTrip ==
  origin # NoOrigin
    => /\ result \in {"running", "Ok"}
       /\ (access.op = "RootNode_array" /\ access.index = <<FieldV, ArrayTagOf(origin.elem)>>)
            => (access.status = "ok" /\ access.value = Some(OriginElements))

\* C26: the string accessor returns, for a String entry that is a named child
\* of a compound and for one that is an element of a list, the text decoded
\* from the bytes that follow its 2-byte length prefix, as many as the prefix
\* declares.
C26_StringText ==
  access.op = "NbtString_parse"
    => /\ access.status = "ok"
       /\ access.value =
            Some(decode_lossy(Bytes(source, BodyPos(tape, access.tape_pos),
                                    tape[access.tape_pos + 1].data)))

\* The tape indices on which a parse call has ended: by returning, or by the
\* panic of its closure.
Accessed ==
  {reads[i][2] : i \in 1..Len(reads)}
    \cup {readers[r].key : r \in {q \in Readers : readers[q].pc = "panic"}}

\* C27: every parse call on a tape index returns the contents the first call
\* on that index returned, and after any sequence of accesses the cache holds
\* as many entries as distinct tape indices have been accessed.
C27_CacheIdempotence ==
  /\ \A i, j \in 1..Len(reads) : reads[i][2] = reads[j][2] => reads[i][3] = reads[j][3]
  /\ Cardinality(DOMAIN cache.entries) = Cardinality(Accessed)

Mismatch == <<<<"mismatch", 0>>>>

\* What is open after the events from the i-th on, stk being what was open
\* before them: an enter opens its entry, a leave closes the entry entered
\* last.  Mismatch when a leave closes anything else.
RECURSIVE OpenAfter(_, _, _)
OpenAfter(events, i, stk) ==
  IF i > Len(events) THEN stk
  ELSE IF events[i][1] \in {"enter_compound", "enter_list"}
  THEN OpenAfter(events, i + 1, Append(stk, events[i]))
  ELSE IF events[i][1] = "visit_value" THEN OpenAfter(events, i + 1, stk)
  ELSE IF /\ stk # <<>>
          /\ stk[Len(stk)][2] = events[i][2]
          /\ stk[Len(stk)][1] = (IF events[i][1] = "leave_list" THEN "enter_list"
                                 ELSE "enter_compound")
  THEN OpenAfter(events, i + 1, SubSeq(stk, 1, Len(stk) - 1))
  ELSE Mismatch

\* The last tape position of the container at p: its End, or p itself for a
\* list without elements, which has none.
SpanLast(tp, p) == IF tp[p + 1].data > p THEN tp[p + 1].data ELSE p

\* C29: a serial traversal started at a container emits the enter of that
\* container first, every enter is followed by its leave in last-entered,
\* first-left order, no event is for an entry outside the container's span,
\* and the traversal is finished exactly from the leave of the starting
\* container on, without a panic.
C29_VisitorNesting ==
  visit.active =>
    /\ visit.status = "ok"
    /\ visit.events # <<>> =>
         /\ visit.events[1][2] = visit.container_tape_pos
         /\ visit.events[1][1] \in {"enter_compound", "enter_list"}
    /\ OpenAfter(visit.events, 1, <<>>) # Mismatch
    /\ \A i \in 1..Len(visit.events) :
         /\ visit.events[i][2] >= visit.container_tape_pos
         /\ visit.events[i][2] <= SpanLast(tape, visit.container_tape_pos)
    /\ visit.finished <=>
         /\ visit.events # <<>>
         /\ OpenAfter(visit.events, 1, <<>>) = <<>>

RECURSIVE ElementPos(_, _, _)
\* The tape position of the i-th entry from q on, counting a Compound or a
\* List with all it holds as one entry.
ElementPos(tp, q, i) ==
  IF i = 0 THEN q
  ELSE ElementPos(tp, IF tp[q + 1].tag \in {TagCompound, TagList}
                      THEN SpanLast(tp, q) + 1 ELSE q + 1, i - 1)

\* The number of elements of the list at tape position p.
ElementCount(tp, p) == IF get_list_len(tp[p + 1]) > 0 THEN get_list_len(tp[p + 1]) ELSE 0

\* C30: indexed access to a List of n elements returns the i-th element in
\* declaration order for 0 <= i < n and absent for i >= n; what it returns is
\* never the list itself nor an entry outside the list, and it never panics.
C30_ListGet ==
  access.op = "NbtList_get"
    => /\ access.status = "ok"
       /\ IF access.index < ElementCount(tape, access.tape_pos)
          THEN access.value =
                 Some(NodeRef(tape, ElementPos(tape, access.tape_pos + 1, access.index)))
          ELSE access.value = None
       /\ access.value # None
            => /\ access.value[1].tape_pos > access.tape_pos
               /\ access.value[1].tape_pos <= SpanLast(tape, access.tape_pos)

\* The one-based index of the first colon of the string, 0 when it has none.
FirstColon(string) ==
  IF \E i \in 1..Len(string) : string[i] = 58
  THEN CHOOSE i \in 1..Len(string) : string[i] = 58 /\ \A j \in 1..(i - 1) : string[j] # 58
  ELSE 0

\* What comes before the first colon, and what comes after it or the whole
\* string when there is no colon.
NamespacePart(string) == SubSeq(string, 1, FirstColon(string) - 1)

ValuePart(string) == SubSeq(string, FirstColon(string) + 1, Len(string))

\* C31: from_string accepts exactly the strings of at most 32767 bytes of the
\* form value or namespace:value, split at the first colon, with a namespace
\* of [a-z0-9._-] and a value of [a-z0-9._-/]; the parts it returns are those
\* (none contains a colon), and namespace() is minecraft when none is given.
C31_IdentifierGrammar ==
  codec.op = "from_string"
    => /\ codec.output.st = "ok"
          <=> /\ Len(codec.input.bs) + codec.input.pad <= IDENTIFIER_MAX_LEN
              /\ \A i \in 1..Len(NamespacePart(codec.input.bs)) :
                   IdentChar(NamespacePart(codec.input.bs)[i])
              /\ \A i \in 1..Len(ValuePart(codec.input.bs)) :
                   IdentChar(ValuePart(codec.input.bs)[i]) \/ ValuePart(codec.input.bs)[i] = 47
       /\ codec.output.st = "ok"
          => /\ codec.output.value = ValuePart(codec.input.bs)
             /\ codec.output.pad = codec.input.pad
             /\ Identifier_namespace(codec.output)
                  = (IF FirstColon(codec.input.bs) = 0 THEN StrMinecraft
                     ELSE NamespacePart(codec.input.bs))

\* C32: on a successfully parsed tape an entry that is not an End reports
\* is_list_item() exactly when it is an element of a list, whatever its tag,
\* and name() of a list element is None.
C32_ListItemFlag ==
  /\ result = "Ok"
       => \A p \in 0..(Len(tape) - 1) :
            tape[p + 1].tag # TagEnd
              => (is_list_item(tape[p + 1]) <=> InListScope(tape, p))
  /\ (access.op = "NbtNode_name" /\ InListScope(tape, access.tape_pos))
       => (access.status = "ok" /\ access.value = None)

RECURSIVE Expected(_, _, _, _)
RECURSIVE ExpectedPairs(_, _, _, _, _)
RECURSIVE ExpectedItems(_, _, _, _, _)

\* The entry after the one at tape position q, a Compound or a List counting
\* with all it holds.
After(tp, q) == IF tp[q + 1].tag \in {TagCompound, TagList} THEN SpanLast(tp, q) + 1 ELSE q + 1

\* What the tape holds at position p, depth being the number of containers
\* open once p is: a Compound with its children by name, in order; a List
\* with its elements, in order; a leaf.
Expected(src, tp, p, depth) ==
  IF tp[p + 1].tag = TagCompound
  THEN [ kind  |-> "Compound", depth |-> depth,
         pairs |-> ExpectedPairs(src, tp, p + 1, depth + 1, <<>>) ]
  ELSE IF tp[p + 1].tag = TagList
  THEN [ kind  |-> "List", depth |-> depth,
         items |-> IF tp[p + 1].data > p
                   THEN ExpectedItems(src, tp, p + 1, depth + 1, <<>>) ELSE <<>> ]
  ELSE [kind |-> "leaf", tape_pos |-> p]

ExpectedPairs(src, tp, q, depth, pairs) ==
  IF q >= Len(tp) \/ tp[q + 1].tag = TagEnd THEN pairs
  ELSE ExpectedPairs(src, tp, After(tp, q), depth,
                     Append(pairs, <<get_name_at(src, tp, q), Expected(src, tp, q, depth)>>))

ExpectedItems(src, tp, q, depth, items) ==
  IF q >= Len(tp) \/ tp[q + 1].tag = TagEnd THEN items
  ELSE ExpectedItems(src, tp, After(tp, q), depth, Append(items, Expected(src, tp, q, depth)))

\* C33: from_parser on a successfully parsed tape gives each Compound as the
\* map of its direct children in declaration order and each List as the
\* sequence of its elements, with a scope stack as deep as the container
\* being read is nested, and empty when the root map has ended.
C33_DeserializeStructure ==
  access.op = "from_parser"
    => /\ access.status = "ok"
       /\ access.value.value = Expected(source, tape, 0, 1)
       /\ access.value.stack = <<>>

\* The buffer parse_packet looks at in this step, in which the task takes
\* bytes of the wire: read wrote them over its front, read_buf appended them.
BufferRead ==
  IF task = "read" THEN BufOverwrite(buffer, Take(wire, Len(wire) - Len(wire')))
  ELSE BufAppend(buffer, Take(wire, Len(wire) - Len(wire')))

\* How many bytes at the front of buffer b have come from the transport: the
\* bytes before the zero bytes no read has written.
ReceivedAtFront(b) == IF b.zeros = 0 THEN Len(b.head) + Len(b.tail) ELSE Len(b.head)

\* check_packet on all of buffer b, and on its received front alone.
HeaderIn(b) == check_packet(BufSlice(b, 0, Min(BufLen(b), 9)), BufLen(b))

HeaderReceived(b) ==
  check_packet(BufSlice(b, 0, Min(ReceivedAtFront(b), 9)), ReceivedAtFront(b))

\* C34: parse_packet decodes received bytes only: the length, the id and the
\* payload of a frame it finds lie in the bytes that have come from the
\* transport, not in the zero bytes the buffer was made of, and when only a
\* part of a frame has been received it answers Incomplete and the task goes
\* on to read more.
C34_OnlyReceivedBytes ==
  [][ (task \in {"read", "read_buf"} /\ Len(wire') < Len(wire))
      => /\ FrameFound
              => HeaderIn(BufferRead).position + HeaderIn(BufferRead).len
                   <= ReceivedAtFront(BufferRead)
         /\ HeaderReceived(BufferRead).st = "Incomplete"
              => (~FrameFound /\ task' = "read_buf") ]_vars

\* C35: the connection task returns Ok only when the transport has reported
\* the end of the stream, the peer having closed with nothing left to read;
\* the buffer offered to stream.read is never empty, so no read returns 0
\* while the peer is connected.
C35_OkOnlyAtEndOfStream ==
  /\ task = "Ok" => (peer_closed /\ wire = <<>>)
  /\ task = "read" => BufLen(buffer) > 0

\* The bytes check_packet reads are all among the bytes the input gives: the
\* input is the whole buffer, or both varints end within the given bytes.
FrameGiven(input) ==
  \/ input.total = Len(input.bs)
  \/ /\ try_get_varint_with_at_most(input.bs, 3).st = "ok"
     /\ get_varint(try_get_varint_with_at_most(input.bs, 3).rest).st = "ok"

\* C36: check_packet never aborts: whatever the buffer holds, it returns
\* Ok{len, packet_id}, Incomplete or a decode error; so too for a length
\* prefix of 0 at the end of the buffer, a length prefix above 65535 and a
\* packet id cut off by the end of the buffer.
C36_CheckPacketNeverAborts ==
  (codec.op = "check_packet" /\ FrameGiven(codec.input))
    => codec.output.st \in {"ok", "Incomplete", "VarIntTooBig"}

\* C37: a handler suspended in a transport write that never completes does
\* not keep the packets of other connections from being handled: every
\* handle_packet call that waits for the shared lock acquires it in the end.
C37_LockEventuallyAcquired ==
  \A t \in Tasks : (call_pc[t] = "lock") ~> (call_pc[t] = "chain")

\* What serialize_tag recorded for the values standing at `place`.
WrittenAt(place) ==
  {codec.output.written[i] : i \in {j \in 1..Len(codec.output.written) :
                                      codec.output.written[j].place = place}}

\* C38: the serializer's scope stack mirrors the nesting of its output: the
\* stack is after every container as it was before it, a struct field that
\* follows a sequence field is written with its tag byte and name, the
\* elements of a List or an array are written without tag byte and name, and
\* the stack is empty when to_bytes returns.
C38_ScopeStackMirrorsNesting ==
  codec.op = "to_bytes"
    => /\ \A e \in WrittenAt("end") : e.header
       /\ \A e \in WrittenAt("after") : e.header
       /\ \A e \in WrittenAt("element") : ~e.header
       /\ codec.output.stack = <<>>

\* The tape position of the End that closes the root compound.
RootEnd(tp) == tp[1].data

\* C39: a successfully parsed tape describes exactly one root compound: the
\* End entry that matches entry 0 is the last entry, every later entry lies
\* within the root's span, and no byte that follows the root compound's End
\* has become a tape entry.
C39_OneRootCompound ==
  result = "Ok" =>
    /\ tape # <<>>
    /\ tape[1].tag = TagCompound
    /\ Linked(tape, 0)
    /\ RootEnd(tape) = Len(tape) - 1
    /\ \A i \in 1..(Len(tape) - 1) :
         /\ i <= RootEnd(tape)
         /\ tape[i + 1].source_pos <= tape[RootEnd(tape) + 1].source_pos

\* The lengths ListData::new is called with in the iteration of Tape::parse
\* that starts with position p, tape tp and stack stk: the declared length of
\* the list whose header the iteration reads, if it reads one.
ListData_new_len(src, p, tp, stk, network) ==
  LET a == ListScopeStep(tp, stk, p)
      h == ReadHeader(src, p, a.stack, a.tag_tape_pos, network)
  IN  IF /\ h.status = "ok"
         /\ a.tag_tape_pos # 0
         /\ h.tag = TagList
         /\ Remaining(src, h.pos) >= 5
         /\ TagTryFrom(src[h.pos + 1])
      THEN {I32(Bytes(src, h.pos + 1, 4))}
      ELSE {}

\* C40: while the tape is built, ListData::new is called with len > 0 only,
\* so that its debug assertion holds whatever the input, lists with a
\* declared length of zero or below included.
C40_ListDataLenPositive ==
  [][ (result = "running" /\ pos < Len(source) /\ <<pos, tape, result>>' # <<pos, tape, result>>)
        => /\ \A len \in ListData_new_len(source, pos, tape, stack, is_network_nbt) : len > 0
           /\ (debug_build /\ ListData_new_len(source, pos, tape, stack, is_network_nbt) # {})
                => result' # "panic" ]_vars

====
